---- MODULE Spec2Model ----
(***************************************************************************)
(* A model of the content-engine ad generator: the typography placement   *)
(* engine, the create_ad pipeline, the JSON extraction fallback chain,     *)
(* the brightness map, the contrast-aware text colour, font lookup, brand  *)
(* template lookup, the ad-pattern database and the ad-copy generation,    *)
(* the marketplace scraping session, overlap detection and resolution,     *)
(* one placement engine over several calls, the professional text anchors  *)
(* and the pattern-based prompt enhancement.                               *)
(*                                                                         *)
(* Relative coordinates (x_rel, y_rel, spacing) are kept in hundredths,    *)
(* so int(rel * size) is (rel100 * size) \div 100; the image sizes the     *)
(* model draws are sizes for which Python's float product truncates to the *)
(* same integer.                                                           *)
(***************************************************************************)
EXTENDS Integers, Sequences, FiniteSets, TLC

VARIABLES
    pl_pc,           \* text placement: "call" before optimize_text_placement, "done" after
    pl_args,         \* text placement: the arguments of the call
    positions,       \* text placement: the positions dictionary returned
    bounding_boxes   \* text placement: the bounding boxes after overlap resolution

VARIABLES
    ad_pc,           \* create_ad: the step about to run, "done" after it returned
    ad_prompt,       \* create_ad: the prompt, as its number of whitespace-separated words
    ad,              \* create_ad: its local variables (what each step produced)
    ad_log,          \* create_ad: the steps run so far, in order
    ad_result        \* create_ad: what the call returned

VARIABLES
    js_pc,           \* _extract_json: "call" before the call, "done" after
    js_text,         \* _extract_json: the text, a sequence of tokens
    js_result        \* _extract_json: what the call returned

VARIABLES
    bm_pc,           \* analyze_brightness_map: "call" before the call, "done" after
    image,           \* analyze_brightness_map: the grayscale image, rows of pixels
    brightness_map   \* analyze_brightness_map: the outcome of the call

VARIABLES
    cs_pc,           \* colour scheme: "call" before _ensure_text_contrast, "done" after
    background_color,\* colour scheme: the RGB background colour
    text_color       \* colour scheme: the RGBA text colour returned

VARIABLES
    sm_pc,           \* style manager: "call" before a method runs, "done" after
    font_files,      \* style manager: the font files that exist on disk
    bad_files,       \* style manager: the existing files ImageFont.truetype cannot open
    default_ok,      \* style manager: whether ImageFont.load_default() succeeds
    sm_call,         \* style manager: the method called and its arguments
    sm_result        \* style manager: what the call returned or raised

VARIABLES
    db_pc,           \* patterns database: "call" before a method runs, "done" after
    industries,      \* patterns database: self.industries, in dict order
    db_call,         \* patterns database: the method called and its arguments
    db_result        \* patterns database: what the call returned or raised

VARIABLES
    sc_pc,           \* scraper: the step of run_comprehensive_scraping_session about to run
    sc_args,         \* scraper: max_ads and the number of categories of the call
    sc_category,     \* scraper: the index of the category being collected
    sc_scrolls,      \* scraper: the scrolls made so far in this category
    category_ads,    \* scraper: the ads collected so far in this category
    collected_ads,   \* scraper: the ads collected in the categories already finished
    sc_result        \* scraper: what the session returned

VARIABLES
    ov_pc,           \* overlaps: "call" before check_text_overlaps runs, "done" after
    ov_boxes,        \* overlaps: the bounding_boxes dictionary of the call
    ov_result        \* overlaps: the list check_text_overlaps returned

VARIABLES
    rs_pc,           \* overlap resolution: "call" before the overlaps are resolved, "done" after
    rs_call,         \* overlap resolution: the positions, text sizes and image height of the call
    rs_result        \* overlap resolution: the positions and bounding boxes afterwards

VARIABLES
    en_calls,          \* engine: the number of calculate_text_positions calls made on it
    layout_templates,  \* engine: self.layout_templates
    brand_templates,   \* engine: self.brand_templates
    en_call,           \* engine: the arguments of the last call
    en_positions       \* engine: the positions the last call returned

VARIABLES
    pp_pc,           \* professional positions: "call" before the call, "done" after
    pp_args,         \* professional positions: width, height, placement and brightness map
    pp_positions     \* professional positions: the anchors returned

VARIABLES
    ep_pc,           \* prompt enhancement: "call" before enhance_ad_prompt, "done" after
    patterns_db,     \* prompt enhancement: the industries of self.patterns_db
    ep_call,         \* prompt enhancement: industry, target_platform and target_demographic
    ep_result        \* prompt enhancement: what enhance_ad_prompt returned

pl_vars == <<pl_pc, pl_args, positions, bounding_boxes>>
ad_vars == <<ad_pc, ad_prompt, ad, ad_log, ad_result>>

js_vars == <<js_pc, js_text, js_result>>

bm_vars == <<bm_pc, image, brightness_map>>

cs_vars == <<cs_pc, background_color, text_color>>

sm_vars == <<sm_pc, font_files, bad_files, default_ok, sm_call, sm_result>>

db_vars == <<db_pc, industries, db_call, db_result>>

sc_vars == <<sc_pc, sc_args, sc_category, sc_scrolls, category_ads, collected_ads, sc_result>>

ov_vars == <<ov_pc, ov_boxes, ov_result>>

rs_vars == <<rs_pc, rs_call, rs_result>>

en_vars == <<en_calls, layout_templates, brand_templates, en_call, en_positions>>

pp_vars == <<pp_pc, pp_args, pp_positions>>

ep_vars == <<ep_pc, patterns_db, ep_call, ep_result>>

vars == <<pl_vars, ad_vars, js_vars, bm_vars, cs_vars, sm_vars, db_vars, sc_vars, ov_vars, rs_vars, en_vars, pp_vars, ep_vars>>

\* what the actions of one component leave alone: the other components
not_pl == <<ad_vars, js_vars, bm_vars, cs_vars, sm_vars, db_vars, sc_vars, ov_vars, rs_vars, en_vars, pp_vars, ep_vars>>
not_ad == <<pl_vars, js_vars, bm_vars, cs_vars, sm_vars, db_vars, sc_vars, ov_vars, rs_vars, en_vars, pp_vars, ep_vars>>
not_js == <<pl_vars, ad_vars, bm_vars, cs_vars, sm_vars, db_vars, sc_vars, ov_vars, rs_vars, en_vars, pp_vars, ep_vars>>
not_bm == <<pl_vars, ad_vars, js_vars, cs_vars, sm_vars, db_vars, sc_vars, ov_vars, rs_vars, en_vars, pp_vars, ep_vars>>
not_cs == <<pl_vars, ad_vars, js_vars, bm_vars, sm_vars, db_vars, sc_vars, ov_vars, rs_vars, en_vars, pp_vars, ep_vars>>
not_sm == <<pl_vars, ad_vars, js_vars, bm_vars, cs_vars, db_vars, sc_vars, ov_vars, rs_vars, en_vars, pp_vars, ep_vars>>
not_db == <<pl_vars, ad_vars, js_vars, bm_vars, cs_vars, sm_vars, sc_vars, ov_vars, rs_vars, en_vars, pp_vars, ep_vars>>
not_sc == <<pl_vars, ad_vars, js_vars, bm_vars, cs_vars, sm_vars, db_vars, ov_vars, rs_vars, en_vars, pp_vars, ep_vars>>
not_ov == <<pl_vars, ad_vars, js_vars, bm_vars, cs_vars, sm_vars, db_vars, sc_vars, rs_vars, en_vars, pp_vars, ep_vars>>
not_rs == <<pl_vars, ad_vars, js_vars, bm_vars, cs_vars, sm_vars, db_vars, sc_vars, ov_vars, en_vars, pp_vars, ep_vars>>
not_en == <<pl_vars, ad_vars, js_vars, bm_vars, cs_vars, sm_vars, db_vars, sc_vars, ov_vars, rs_vars, pp_vars, ep_vars>>
not_pp == <<pl_vars, ad_vars, js_vars, bm_vars, cs_vars, sm_vars, db_vars, sc_vars, ov_vars, rs_vars, en_vars, ep_vars>>
not_ep == <<pl_vars, ad_vars, js_vars, bm_vars, cs_vars, sm_vars, db_vars, sc_vars, ov_vars, rs_vars, en_vars, pp_vars>>

NoValue == "none"

Min(a, b) == IF a < b THEN a ELSE b
Max(a, b) == IF a > b THEN a ELSE b

(***************************************************************************)
(* TextPlacementEngine                                                     *)
(***************************************************************************)

\* insertion order of the positions dictionary built by calculate_text_positions
ElemOrder == <<"headline", "subheadline", "body", "cta", "brand">>
Elements == {ElemOrder[i] : i \in 1..Len(ElemOrder)}

El(x, y, a) == [x_rel |-> x, y_rel |-> y, alignment |-> a]
Sp(hs, sb, bc) == [headline_to_subheadline |-> hs, subheadline_to_body |-> sb, body_to_cta |-> bc]
NoBackground == [enabled |-> FALSE, y_start |-> 0, y_end |-> 0]

Column(x, a, hy, sy, by, cy, ry, sp, bg) ==
    [headline |-> El(x, hy, a), subheadline |-> El(x, sy, a), body |-> El(x, by, a),
     cta |-> El(x, cy, a), brand |-> El(x, ry, a), spacing |-> sp, background |-> bg]

LayoutStyles == {"centered", "left_aligned", "right_aligned", "top_centered",
                 "bottom_centered", "bottom_left", "bottom_right", "split_layout",
                 "text_overlay", "dynamic"}

_setup_layout_templates ==
    [s \in LayoutStyles |->
        CASE s = "centered"        -> Column(50, "center", 25, 35, 50, 80, 10, Sp(6, 5, 8), NoBackground)
          [] s = "left_aligned"    -> Column(10, "left",   25, 35, 50, 80, 10, Sp(6, 5, 8), NoBackground)
          [] s = "right_aligned"   -> Column(90, "right",  25, 35, 50, 80, 10, Sp(6, 5, 8), NoBackground)
          [] s = "top_centered"    -> Column(50, "center", 15, 22, 30, 45, 7,  Sp(5, 4, 6), NoBackground)
          [] s = "bottom_centered" -> Column(50, "center", 65, 72, 80, 90, 55, Sp(5, 4, 6), NoBackground)
          [] s = "bottom_left"     -> Column(10, "left",   65, 72, 80, 90, 55, Sp(5, 4, 6), NoBackground)
          [] s = "bottom_right"    -> Column(90, "right",  65, 72, 80, 90, 55, Sp(5, 4, 6), NoBackground)
          [] s = "split_layout"    -> Column(50, "center", 15, 22, 80, 90, 7,  Sp(5, 50, 6), NoBackground)
          [] s = "text_overlay"    -> Column(50, "center", 45, 52, 60, 70, 37, Sp(5, 4, 6),
                                             [enabled |-> TRUE, y_start |-> 35, y_end |-> 75])
          [] s = "dynamic"         -> Column(50, "center", 25, 35, 50, 80, 10, Sp(6, 5, 8), NoBackground)]

\* iteration order of the brand_templates dictionary
BrandOrder == <<"apple", "nike", "bmw", "rolex", "samsung">>
BrandKeys == {BrandOrder[i] : i \in 1..Len(BrandOrder)}

_setup_brand_templates ==
    [b \in BrandKeys |->
        CASE b = "apple"   -> Column(50, "center", 25, 33, 45, 65, 15, Sp(5, 5, 10), NoBackground)
          [] b = "nike"    -> Column(10, "left",   25, 35, 45, 60, 80, Sp(6, 4, 8), NoBackground)
          [] b = "bmw"     -> Column(10, "left",   70, 77, 85, 92, 3,  Sp(4, 4, 3), NoBackground)
          [] b = "rolex"   -> Column(50, "center", 30, 38, 48, 60, 15, Sp(5, 5, 8), NoBackground)
          [] b = "samsung" -> [Column(50, "center", 75, 82, 87, 93, 5, Sp(4, 3, 3), NoBackground)
                                 EXCEPT !.brand = El(10, 5, "left")]]

RECURSIVE FirstBrandFrom(_, _)
RECURSIVE PairsFrom(_, _, _, _)
RECURSIVE SumRow(_, _, _)
RECURSIVE SumRows(_, _, _, _, _)
RECURSIVE ParseValue(_, _)
RECURSIVE ParseMembers(_, _)
RECURSIVE ParseItems(_, _)
RECURSIVE SplitLines(_, _, _)
RECURSIVE FirstPair(_, _)
RECURSIVE ParseLines(_, _, _)
RECURSIVE resolve_text_overlaps(_, _, _, _)

\* A brand name is modelled by the set of brand_templates keys its lower-cased
\* text contains (the code tests `brand in brand_lower`); a brand_name of None
\* or "" behaves as a name containing none of them, the empty set.
FirstBrandFrom(keys, i) ==
    IF i > Len(BrandOrder) THEN NoValue
    ELSE IF BrandOrder[i] \in keys THEN BrandOrder[i]
    ELSE FirstBrandFrom(keys, i + 1)

\* the template calculate_text_positions starts from (before dynamic placement)
SelectTemplate(layouts, brands, style, brand_name) ==
    LET matched == FirstBrandFrom(brand_name, 1)
    IN  IF matched # NoValue THEN brands[matched]
        ELSE IF style \in DOMAIN layouts THEN layouts[style]
        ELSE layouts["centered"]

\* The two image analyses _calculate_dynamic_placement reads.
\* _find_subject_position: found = FALSE is None; x_low is x < 0.5, y_low is y < 0.5.
\* _analyze_image_brightness: level "none" is None, "dark" is overall < 0.2,
\* "bright" is overall > 0.8 with <<vert, horiz>> its darkest region.
Subjects ==
    {[found |-> FALSE, x_low |-> FALSE, y_low |-> FALSE]}
    \cup [found : {TRUE}, x_low : BOOLEAN, y_low : BOOLEAN]
Brightnesses ==
    [level : {"none", "normal", "dark"}, vert : {"top"}, horiz : {"left"}]
    \cup [level : {"bright"}, vert : {"top", "middle", "bottom"}, horiz : {"left", "center", "right"}]

YMap(vert) == CASE vert = "top" -> 20 [] vert = "middle" -> 50 [] vert = "bottom" -> 80
XMap(horiz) == CASE horiz = "left" -> 15 [] horiz = "center" -> 50 [] horiz = "right" -> 85

SubjectY(e, y_low) ==
    IF y_low
    THEN CASE e = "headline" -> 70 [] e = "subheadline" -> 77 [] e = "body" -> 84
           [] e = "cta" -> 90 [] e = "brand" -> 60
    ELSE CASE e = "headline" -> 20 [] e = "subheadline" -> 27 [] e = "body" -> 34
           [] e = "cta" -> 45 [] e = "brand" -> 10

DarkY(e) ==
    CASE e = "headline" -> 68 [] e = "subheadline" -> 75 [] e = "body" -> 82 [] e = "cta" -> 89

AfterSubject(template, subject) ==
    IF ~subject.found THEN template
    ELSE [k \in DOMAIN template |->
            IF k \in Elements
            THEN El(IF subject.x_low THEN 85 ELSE 15, SubjectY(k, subject.y_low),
                    IF subject.x_low THEN "right" ELSE "left")
            ELSE template[k]]

AfterBrightness(template, brightness) ==
    IF brightness.level = "dark"
    THEN [k \in DOMAIN template |->
            IF k \in Elements \ {"brand"} THEN El(50, DarkY(k), "center")
            ELSE IF k = "background" THEN [enabled |-> TRUE, y_start |-> 60, y_end |-> 95]
            ELSE template[k]]
    ELSE IF brightness.level = "bright"
    THEN [k \in DOMAIN template |->
            IF k \in Elements \ {"brand"}
            THEN El(XMap(brightness.horiz), YMap(brightness.vert), brightness.horiz)
            ELSE template[k]]
    ELSE template

_calculate_dynamic_placement(template, subject, brightness) ==
    AfterBrightness(AfterSubject(template, subject), brightness)

\* int(rel * size) with rel in hundredths and size a multiple of 100 up to
\* 1000. The product is a float: for the pairs of TruncatedBelow it is just
\* below the integer rel * size / 100 (0.82 * 300 is 245.99999999999997), and
\* int() gives one less.
TruncatedBelow ==
    {<<29, 100>>, <<57, 100>>, <<58, 100>>, <<29, 200>>, <<57, 200>>, <<58, 200>>,
     <<41, 300>>, <<57, 300>>, <<69, 300>>, <<82, 300>>, <<29, 400>>, <<57, 400>>,
     <<58, 400>>, <<41, 600>>, <<57, 600>>, <<69, 600>>, <<82, 600>>, <<35, 700>>,
     <<57, 700>>, <<69, 700>>, <<70, 700>>, <<29, 800>>, <<57, 800>>, <<58, 800>>}

Scale(rel, size) ==
    IF <<rel, size>> \in TruncatedBelow THEN (rel * size) \div 100 - 1
    ELSE (rel * size) \div 100

\* font_dimensions built by optimize_text_placement: the text's getbbox width
\* and height for every element that has a font and a non-empty text
HeightOf(dims, present, e) == IF e \in present THEN dims[e][2] ELSE 0

\* _adjust_positions_for_spacing: every position it reads was read before the
\* first write, so body and cta are placed from the unadjusted subheadline and
\* body rows
_adjust_positions_for_spacing(pos, spacing, height, dims) ==
    LET present == DOMAIN pos
        has(e) == e \in present
        y0(e) == pos[e].y
    IN  [e \in present |->
            IF e = "subheadline" /\ has("headline")
            THEN [pos[e] EXCEPT !.y = y0("headline") + HeightOf(dims, present, "headline")
                                      + Scale(spacing.headline_to_subheadline, height)]
            ELSE IF e = "body" /\ has("subheadline")
            THEN [pos[e] EXCEPT !.y = y0("subheadline") + HeightOf(dims, present, "subheadline")
                                      + Scale(spacing.subheadline_to_body, height)]
            ELSE IF e = "cta" /\ has("body")
            THEN [pos[e] EXCEPT !.y = y0("body") + HeightOf(dims, present, "body")
                                      + Scale(spacing.body_to_cta, height)]
            ELSE pos[e]]

\* calculate_text_positions, on the template already selected
calculate_text_positions(template, width, height, texts, dims) ==
    LET raw == [e \in texts |->
                  [x |-> Scale(template[e].x_rel, width),
                   y |-> Scale(template[e].y_rel, height),
                   alignment |-> template[e].alignment]]
    IN  _adjust_positions_for_spacing(raw, template.spacing, height, dims)

\* get_text_bounding_boxes: <<left, top, right, bottom>> of every element that
\* has a text and a font
BoxOf(p, d) ==
    LET x == IF p.alignment = "center" THEN p.x - (d[1] \div 2)
             ELSE IF p.alignment = "right" THEN p.x - d[1]
             ELSE p.x
    IN  <<x, p.y, x + d[1], p.y + d[2]>>

get_text_bounding_boxes(pos, dims) == [e \in DOMAIN pos |-> BoxOf(pos[e], dims[e])]

BoxesOverlap(box1, box2) ==
    /\ box1[1] < box2[3] /\ box1[3] > box2[1]
    /\ box1[2] < box2[4] /\ box1[4] > box2[2]

\* check_text_overlaps: the overlapping pairs <<elements[i], elements[j]>>,
\* i < j, in the order of the nested loops
KeysInOrder(boxes) == SelectSeq(ElemOrder, LAMBDA e : e \in DOMAIN boxes)

PairsFrom(keys, boxes, i, j) ==
    IF i > Len(keys) THEN << >>
    ELSE IF j > Len(keys) THEN PairsFrom(keys, boxes, i + 1, i + 2)
    ELSE (IF BoxesOverlap(boxes[keys[i]], boxes[keys[j]]) THEN << <<keys[i], keys[j]>> >> ELSE << >>)
         \o PairsFrom(keys, boxes, i, j + 1)

check_text_overlaps(boxes) == PairsFrom(KeysInOrder(boxes), boxes, 1, 2)

\* resolve_text_overlaps: the pairs found before any move are processed in
\* order; each moves its lower-priority element vertically and updates that
\* element's position and bounding box
element_priority(e) ==
    CASE e = "brand" -> 1 [] e = "headline" -> 2 [] e = "subheadline" -> 3
      [] e = "body" -> 4 [] e = "cta" -> 5

\* the choice without the priorities: the first element of the pair moves
ElementToMoveFirst(pair) ==
    pair[1]

ElementToMove(pair) ==
    IF element_priority(pair[1]) < element_priority(pair[2]) THEN pair[2] ELSE pair[1]
FixedElement(pair) ==
    IF element_priority(pair[1]) < element_priority(pair[2]) THEN pair[1] ELSE pair[2]

ResolveOne(st, pair, image_height) ==
    LET m == ElementToMove(pair)
        box_move == st.boxes[m]
        box_fixed == st.boxes[FixedElement(pair)]
        overlap_y == Min(box_move[4], box_fixed[4]) - Max(box_move[2], box_fixed[2])
        padding == Scale(2, image_height)
        new_y == IF box_move[2] < box_fixed[2]
                 THEN box_move[2] - overlap_y - padding
                 ELSE st.pos[m].y + overlap_y + padding
        h == box_move[4] - box_move[2]
    IN  [pos   |-> [st.pos EXCEPT ![m].y = new_y],
         boxes |-> [st.boxes EXCEPT ![m] = <<box_move[1], new_y, box_move[3], new_y + h>>]]

resolve_text_overlaps(st, overlaps, image_height, i) ==
    IF i > Len(overlaps) THEN st
    ELSE resolve_text_overlaps(ResolveOne(st, overlaps[i], image_height), overlaps,
                               image_height, i + 1)

\* optimize_text_placement on a newly constructed engine: a is the call's
\* arguments; the result is the positions returned and the bounding boxes as
\* resolve_text_overlaps left them
optimize_text_placement(a) ==
    LET base == SelectTemplate(_setup_layout_templates, _setup_brand_templates,
                               a.style, a.brand_name)
        template == IF a.style = "dynamic"
                    THEN _calculate_dynamic_placement(base, a.subject, a.brightness)
                    ELSE base
        pos == calculate_text_positions(template, a.width, a.height, a.texts, a.dims)
        boxes == get_text_bounding_boxes(pos, a.dims)
        overlaps == check_text_overlaps(boxes)
    IN  [initial |-> boxes, overlaps |-> overlaps,
         final |-> resolve_text_overlaps([pos |-> pos, boxes |-> boxes], overlaps, a.height, 1)]

\* ---- the calls of optimize_text_placement the model draws ----

\* image sides are multiples of 100 pixels, up to MaxImageScale hundreds
MaxImageScale == 1
ImageSides == {100 * k : k \in 1..MaxImageScale}

\* <<width, height>> of a rendered text: a short small line, a long tall line
TextDims == {<<20, 8>>, <<80, 30>>}
NoDims == <<0, 0>>

\* brand names: none of the keys, one key, or a name containing two keys
BrandNames == {{}} \cup {{b} : b \in BrandKeys} \cup {{"apple", "samsung"}}

StyleNames == LayoutStyles \cup {"unknown_style"}

NoSubject == [found |-> FALSE, x_low |-> FALSE, y_low |-> FALSE]
NoBrightness == [level |-> "none", vert |-> "top", horiz |-> "left"]

DimsFor(texts) ==
    {d \in [Elements -> TextDims \cup {NoDims}] :
        \A e \in Elements : (d[e] = NoDims) <=> (e \notin texts)}

SubjectsFor(style) == IF style = "dynamic" THEN Subjects ELSE {NoSubject}
BrightnessesFor(style) == IF style = "dynamic" THEN Brightnesses ELSE {NoBrightness}

NoPositions == [e \in {} |-> 0]

PlacementIdle ==
    /\ pl_pc = "idle"
    /\ pl_args = NoValue
    /\ positions = NoPositions
    /\ bounding_boxes = NoPositions

PlacementInit ==
    /\ pl_pc = "call"
    /\ \E w \in ImageSides, h \in ImageSides, t \in SUBSET Elements, s \in StyleNames,
          b \in BrandNames :
         \E d \in DimsFor(t), sj \in SubjectsFor(s), br \in BrightnessesFor(s) :
            pl_args = [width |-> w, height |-> h, texts |-> t, dims |-> d, style |-> s,
                       brand_name |-> b, subject |-> sj, brightness |-> br]
    /\ positions = NoPositions
    /\ bounding_boxes = NoPositions

OptimizeTextPlacement ==
    /\ pl_pc = "call"
    /\ LET r == optimize_text_placement(pl_args)
       IN  /\ positions' = r.final.pos
           /\ bounding_boxes' = r.final.boxes
    /\ pl_pc' = "done"
    /\ UNCHANGED <<pl_args, not_pl>>

PlacementNext == OptimizeTextPlacement

\* C1: after optimize_text_placement returns, check_text_overlaps on the
\* bounding boxes of the returned positions yields an empty list: no two text
\* elements overlap.
C1_NoOverlapAfterOptimize ==
    pl_pc = "done" =>
        check_text_overlaps(get_text_bounding_boxes(positions, pl_args.dims)) = << >>

(***************************************************************************)
(* AdGenerator.create_ad and the steps it calls                            *)
(***************************************************************************)

\* prompts have 0..MaxPromptWords words; an LLM headline has 0..MaxHeadlineWords
MaxPromptWords == 9
MaxHeadlineWords == 10
HeadlineLimit == 8

NoCopy == [source |-> "none", headline_words |-> 0]
NoLocals ==
    [extraction |-> "none", analysis |-> "none", brand_level_is_str |-> TRUE,
     brand_level_truthy |-> TRUE, brand_level_styled |-> TRUE,
     industry_is_str |-> TRUE, industry_truthy |-> TRUE,
     typography_style_set |-> TRUE, insights |-> "none", copy |-> NoCopy,
     base_path |-> NoValue, final_path |-> NoValue, typography |-> "none"]
NoResult == [returned |-> FALSE, raised |-> FALSE, keys |-> {}, image_path |-> NoValue,
             headline_words |-> 0]

\* generate_ad_copy. llm is what the chat completion and _extract_json gave:
\* kind "error" (an exception anywhere in the try block), "no_headline" (a
\* dictionary without 'headline') or "headline" with that many words.
\* A missing headline becomes "Default headline for <prompt>"; more than 8
\* words are cut to the first 8; the except branch returns
\* "EXPERIENCE <PROMPT>" unchanged.
Truncate(words) == IF words > HeadlineLimit THEN HeadlineLimit ELSE words

generate_ad_copy(prompt_words, insights_is_dict, llm) ==
    IF llm.kind = "error" \/ ~insights_is_dict
    THEN [source |-> "default", headline_words |-> 1 + prompt_words]
    ELSE IF llm.kind = "no_headline"
    THEN [source |-> "llm", headline_words |-> Truncate(3 + prompt_words)]
    ELSE [source |-> "llm", headline_words |-> Truncate(llm.words)]

CopyReplies ==
    [kind : {"error", "no_headline"}, words : {0}]
    \cup [kind : {"headline"}, words : 0..MaxHeadlineWords]

\* the keys of the dictionaries create_ad returns
CompiledKeys ==
    {"product", "brand_name", "headline", "subheadline", "body_text", "call_to_action",
     "image_path", "base_image_path", "brand_analysis", "social_media_insights",
     "generation_time"}
\* mutant: the fallback ad is returned without its image path
FallbackKeysNoImage ==
    {"product", "brand_name", "headline", "subheadline", "body_text", "call_to_action",
     "brand_analysis", "social_media_insights", "generation_time", "error"}

FallbackKeys ==
    {"product", "brand_name", "headline", "subheadline", "body_text", "call_to_action",
     "image_path", "brand_analysis", "social_media_insights", "generation_time", "error"}

\* mutant: the image is generated before the ad copy
StepAfterImageFirst(step) ==
    CASE step = "extract" -> "analyze"
      [] step = "analyze" -> "social"
      [] step = "social" -> "image"
      [] step = "image" -> "copy"
      [] step = "copy" -> "typography"
      [] step = "typography" -> "compile"
      [] step = "compile" -> "done"

\* the order of the statements of create_ad's try block
StepAfter(step) ==
    CASE step = "extract" -> "analyze"
      [] step = "analyze" -> "social"
      [] step = "social" -> "copy"
      [] step = "copy" -> "image"
      [] step = "image" -> "typography"
      [] step = "typography" -> "compile"
      [] step = "compile" -> "done"

AdStep(step, event) ==
    /\ ad_pc = step
    /\ ad_pc' = StepAfter(step)
    /\ ad_log' = Append(ad_log, event)

FirstStep == "extract"

AdInit ==
    /\ ad_pc = FirstStep
    /\ ad_prompt \in 0..MaxPromptWords
    /\ ad = NoLocals
    /\ ad_log = << >>
    /\ ad_result = NoResult

AdIdle ==
    /\ ad_pc = "idle"
    /\ ad_prompt = 0
    /\ ad = NoLocals
    /\ ad_log = << >>
    /\ ad_result = NoResult

\* extract_brand_product: the LLM's answer, or the default built from the prompt
ExtractBrandProduct ==
    /\ AdStep("extract", "extraction")
    /\ \E how \in {"llm", "default"} : ad' = [ad EXCEPT !.extraction = how]
    /\ UNCHANGED <<ad_prompt, ad_result, not_ad>>

\* what create_studio_ad's choice of a style looks at in a value of the brand
\* analysis: whether it is a string, whether it is truthy (None, 0, "", []
\* and {} are not), and, for brand_level, whether its lower() contains
\* "luxury" or "premium" (only a non-empty string can)
JsonValues ==
    {v \in [is_str : BOOLEAN, truthy : BOOLEAN, styled : BOOLEAN] :
        v.styled => v.is_str /\ v.truthy}

\* analyze_brand: the LLM's answer with the missing fields filled in (its
\* values have whatever JSON type the LLM gave them), or the default analysis
\* (industry "General", brand_level "Premium", typography_style "Modern
\* sans-serif")
AnalyzeBrand ==
    /\ AdStep("analyze", "brand_analysis")
    /\ \/ \E brand_level \in JsonValues, industry \in {v \in JsonValues : ~v.styled},
             style \in BOOLEAN :
            ad' = [ad EXCEPT !.analysis = "llm",
                             !.brand_level_is_str = brand_level.is_str,
                             !.brand_level_truthy = brand_level.truthy,
                             !.brand_level_styled = brand_level.styled,
                             !.industry_is_str = industry.is_str,
                             !.industry_truthy = industry.truthy,
                             !.typography_style_set = style]
       \/ ad' = [ad EXCEPT !.analysis = "default",
                            !.brand_level_is_str = TRUE,
                            !.brand_level_truthy = TRUE,
                            !.brand_level_styled = TRUE,
                            !.industry_is_str = TRUE,
                            !.industry_truthy = TRUE,
                            !.typography_style_set = TRUE]
    /\ UNCHANGED <<ad_prompt, ad_result, not_ad>>

\* search_social_media_ads: insights loaded from a cached file (the file's
\* 'insights' value, a dictionary or not), synthetic insights, or the default
\* from its handler. _generate_synthetic_insights calls industry.lower() on
\* every truthy industry, so an industry that is no string never gets
\* synthetic insights.
SearchSocialMediaAds ==
    /\ AdStep("social", "social_insights")
    /\ \E how \in {"loaded_dict", "loaded_other", "synthetic", "default"} :
            /\ how = "synthetic" => ~(ad.industry_truthy /\ ~ad.industry_is_str)
            /\ ad' = [ad EXCEPT !.insights = how]
    /\ UNCHANGED <<ad_prompt, ad_result, not_ad>>

GenerateAdCopy ==
    /\ AdStep("copy", "ad_copy")
    /\ \E llm \in CopyReplies :
            ad' = [ad EXCEPT !.copy = generate_ad_copy(ad_prompt, ad.insights # "loaded_other", llm)]
    /\ UNCHANGED <<ad_prompt, ad_result, not_ad>>

\* create_studio_ad, first half: generate_product_image calls the image API,
\* and returns the enhanced image or, on any error, create_placeholder_image's
\* path ("" when that failed too)
GenerateProductImage ==
    /\ ad.insights # "loaded_other"
    /\ AdStep("image", "image_generation")
    /\ \E path \in {"studio_base", "placeholder", ""} : ad' = [ad EXCEPT !.base_path = path]
    /\ UNCHANGED <<ad_prompt, ad_result, not_ad>>

\* create_ad evaluates social_media_insights.get(...) for the call's
\* arguments: insights that are no dictionary raise into create_ad's handler
InsightsRaise ==
    /\ ad_pc = "image"
    /\ ad.insights = "loaded_other"
    /\ ad_pc' = "fallback"
    /\ UNCHANGED <<ad_prompt, ad, ad_log, ad_result, not_ad>>

\* apply_professional_typography's handler without its fallback to the image
\* it was given
TypographyPathNoFallback(composited, image_path) ==
    IF composited THEN "final_ad" ELSE ""

\* apply_professional_typography: the path of the composited image, or, from
\* its handler, the path of the image it was given
TypographyPath(composited, image_path) ==
    IF composited THEN "final_ad" ELSE image_path

\* create_studio_ad's choice of a typography style raises when no style was
\* given and a .lower() is evaluated on a value that is no string:
\* brand_level.lower() for every truthy brand_level, industry.lower() for
\* every truthy industry once brand_level chose neither luxury nor elegant
StyleChoiceRaises(locals) ==
    /\ ~locals.typography_style_set
    /\ \/ locals.brand_level_truthy /\ ~locals.brand_level_is_str
       \/ /\ ~(locals.brand_level_truthy /\ locals.brand_level_styled)
          /\ locals.industry_truthy /\ ~locals.industry_is_str

\* create_studio_ad, second half: apply_professional_typography composites
\* the text and returns the final path, or the base path when it fails
ApplyProfessionalTypography ==
    /\ ~StyleChoiceRaises(ad)
    /\ AdStep("typography", "compositing")
    /\ \E ok \in BOOLEAN :
            ad' = [ad EXCEPT !.final_path = TypographyPath(ok, ad.base_path),
                             !.typography = IF ok THEN "composited" ELSE "failed"]
    /\ UNCHANGED <<ad_prompt, ad_result, not_ad>>

\* create_studio_ad's handler: choosing the typography style raised, both
\* paths become a placeholder
StudioAdFallback ==
    /\ ad_pc = "typography"
    /\ StyleChoiceRaises(ad)
    /\ ad_pc' = "compile"
    /\ \E path \in {"placeholder", ""} :
            ad' = [ad EXCEPT !.base_path = path, !.final_path = path,
                             !.typography = "raised"]
    /\ UNCHANGED <<ad_prompt, ad_log, ad_result, not_ad>>

CompileResults ==
    /\ ad_pc = "compile"
    /\ ad_pc' = StepAfter("compile")
    /\ ad_result' = [returned |-> TRUE, raised |-> FALSE, keys |-> CompiledKeys,
                     image_path |-> ad.final_path, headline_words |-> ad.copy.headline_words]
    /\ UNCHANGED <<ad_prompt, ad, ad_log, not_ad>>

\* create_ad's handler: a placeholder image and the built-in texts
FallbackAd ==
    /\ ad_pc = "fallback"
    /\ ad_pc' = "done"
    /\ ad_log' = Append(ad_log, "placeholder")
    /\ \E path \in {"placeholder", ""} :
            ad_result' = [returned |-> TRUE, raised |-> FALSE, keys |-> FallbackKeys,
                          image_path |-> path, headline_words |-> 1 + ad_prompt]
    /\ UNCHANGED <<ad_prompt, ad, not_ad>>

AdNext ==
    \/ ExtractBrandProduct
    \/ AnalyzeBrand
    \/ SearchSocialMediaAds
    \/ GenerateAdCopy
    \/ GenerateProductImage
    \/ InsightsRaise
    \/ ApplyProfessionalTypography
    \/ StudioAdFallback
    \/ CompileResults
    \/ FallbackAd

\* ---- claims about create_ad ----

RequiredKeys ==
    {"headline", "subheadline", "body_text", "call_to_action", "image_path", "generation_time"}

\* C2: create_ad never raises: whatever steps fail, no exception leaves it,
\* every step before the return has a continuation, and the dictionary it
\* returns has at least headline, subheadline, body_text, call_to_action,
\* image_path and generation_time.
C2_CreateAdAlwaysReturns ==
    /\ ~ad_result.raised
    /\ ad_pc # "done" => ~ad_result.returned /\ ENABLED AdNext
    /\ ad_pc = "done" => ad_result.returned /\ RequiredKeys \subseteq ad_result.keys

\* a run that went through create_ad's exception handler and returned the fallback ad
C2_Witness == ad_pc = "done" /\ ad_result.returned /\ "error" \in ad_result.keys

StepRank(event) ==
    CASE event = "extraction" -> 1
      [] event = "brand_analysis" -> 2
      [] event = "social_insights" -> 3
      [] event = "ad_copy" -> 4
      [] event = "image_generation" -> 5
      [] event = "compositing" -> 6
      [] event = "placeholder" -> 7

Logged(event) == \E i \in 1..Len(ad_log) : ad_log[i] = event

\* C3: the steps of create_ad run in the order extraction, brand analysis,
\* social insights, ad copy, base image, compositing; the image is never
\* generated before the ad copy is available, and compositing never starts
\* before a base image path exists.
C3_StepsInOrder ==
    /\ \A i \in 1..Len(ad_log) : ad_log[i] # "placeholder" => StepRank(ad_log[i]) = i
    /\ \A i, j \in 1..Len(ad_log) : i < j => StepRank(ad_log[i]) < StepRank(ad_log[j])
    /\ Logged("image_generation") => ad.copy.source # "none"
    /\ Logged("compositing") => Logged("image_generation") /\ ad.base_path # NoValue

\* a completed run in which all six steps ran, compositing last
C3_Witness == ad_pc = "done" /\ Len(ad_log) = 6 /\ ad_log[6] = "compositing"

StudioAdNext == GenerateProductImage \/ ApplyProfessionalTypography \/ StudioAdFallback

\* C14: create_studio_ad never raises and always returns both base_path and
\* final_path: inside it (image generation, then typography) a step is always
\* possible, once it has returned both paths are set, and when the text
\* compositing failed the final path is the base path.
C14_StudioAdReturnsBothPaths ==
    /\ ad_pc = "typography" => ad.base_path # NoValue /\ ENABLED StudioAdNext
    /\ ad.typography # "none" => ad.base_path # NoValue /\ ad.final_path # NoValue
    /\ ad.typography \in {"failed", "raised"} => ad.final_path = ad.base_path

\* create_studio_ad returned after the compositing failed on a generated
\* studio image, and the final path is that image
C14_Witness ==
    /\ ad.typography = "failed"
    /\ ad.base_path = "studio_base"
    /\ ad.final_path = "studio_base"

\* C10: every ad copy generate_ad_copy returns, the default copy included,
\* has a headline of at most 8 words.
C10_HeadlineAtMost8Words ==
    ad.copy.source # "none" => ad.copy.headline_words <= HeadlineLimit

(***************************************************************************)
(* AdGenerator._extract_json                                               *)
(*                                                                         *)
(* A text is a sequence of tokens: the JSON punctuation { } [ ] : , a      *)
(* string literal "a" (str), the empty string literal "" (empty), a number *)
(* (num), a run of prose that is no JSON token (word) and a line break     *)
(* (nl).                                                                   *)
(***************************************************************************)
Tokens == {"{", "}", "[", "]", ":", ",", "str", "empty", "num", "word", "nl"}
StringLiterals == {"str", "empty"}
MaxTextLen == 5

\* json.loads on tokens t (line breaks are whitespace and already removed),
\* from position i: [ok, next, type] of the value that starts there
Failed == [ok |-> FALSE, next |-> 0, type |-> "none"]

ParseValue(t, i) ==
    IF i > Len(t) THEN Failed
    ELSE IF t[i] \in StringLiterals THEN [ok |-> TRUE, next |-> i + 1, type |-> "str"]
    ELSE IF t[i] = "num" THEN [ok |-> TRUE, next |-> i + 1, type |-> "number"]
    ELSE IF t[i] = "{"
    THEN IF i + 1 <= Len(t) /\ t[i + 1] = "}"
         THEN [ok |-> TRUE, next |-> i + 2, type |-> "dict"]
         ELSE ParseMembers(t, i + 1)
    ELSE IF t[i] = "["
    THEN IF i + 1 <= Len(t) /\ t[i + 1] = "]"
         THEN [ok |-> TRUE, next |-> i + 2, type |-> "list"]
         ELSE ParseItems(t, i + 1)
    ELSE Failed

\* the members of an object after "{" or ",": "key" : value, then "," or "}"
ParseMembers(t, i) ==
    IF i + 1 > Len(t) \/ t[i] \notin StringLiterals \/ t[i + 1] # ":" THEN Failed
    ELSE LET v == ParseValue(t, i + 2)
         IN  IF ~v.ok \/ v.next > Len(t) THEN Failed
             ELSE IF t[v.next] = "}" THEN [ok |-> TRUE, next |-> v.next + 1, type |-> "dict"]
             ELSE IF t[v.next] = "," THEN ParseMembers(t, v.next + 1)
             ELSE Failed

\* the items of an array after "[" or ",": value, then "," or "]"
ParseItems(t, i) ==
    LET v == ParseValue(t, i)
    IN  IF ~v.ok \/ v.next > Len(t) THEN Failed
        ELSE IF t[v.next] = "]" THEN [ok |-> TRUE, next |-> v.next + 1, type |-> "list"]
        ELSE IF t[v.next] = "," THEN ParseItems(t, v.next + 1)
        ELSE Failed

\* json.loads(text): the type of the value, or "error" (JSONDecodeError)
json_loads(text) ==
    LET t == SelectSeq(text, LAMBDA k : k # "nl")
        v == ParseValue(t, 1)
    IN  IF v.ok /\ v.next = Len(t) + 1 THEN v.type ELSE "error"

\* re.search(r'\{.*\}', text, re.DOTALL): from the first "{" to the last "}"
BraceMatch(text) ==
    LET open == {i \in 1..Len(text) : text[i] = "{"}
        close == {j \in 1..Len(text) : text[j] = "}"}
        first == CHOOSE i \in open : \A k \in open : i <= k
        last == CHOOSE j \in close : \A k \in close : j >= k
    IN  IF open = {} \/ close = {} THEN << >>
        ELSE IF first < last THEN SubSeq(text, first, last)
        ELSE << >>

\* text.split('\n')
SplitLines(text, i, line) ==
    IF i > Len(text) THEN <<line>>
    ELSE IF text[i] = "nl" THEN <<line>> \o SplitLines(text, i + 1, << >>)
    ELSE SplitLines(text, i + 1, Append(line, text[i]))

\* re.search(r'"([^"]+)"\s*:\s*("([^"]*)"|\[.*\])', line): the leftmost
\* "key" : followed by a string or by a [ that some ] closes later in the
\* line; the type of the value found, or "none". The key has at least one
\* character ([^"]+), the string value may be empty ([^"]*).
PairAt(line, p) ==
    IF p + 2 > Len(line) \/ line[p] # "str" \/ line[p + 1] # ":" THEN "none"
    ELSE IF line[p + 2] \in StringLiterals THEN "str"
    ELSE IF line[p + 2] = "[" /\ \E q \in (p + 3)..Len(line) : line[q] = "]" THEN "list"
    ELSE "none"

FirstPair(line, p) ==
    IF p > Len(line) THEN "none"
    ELSE IF PairAt(line, p) # "none" THEN PairAt(line, p)
    ELSE FirstPair(line, p + 1)

\* the line-by-line fallback: the number of lines that gave a "key": value
ParseLines(lines, i, found) ==
    IF i > Len(lines) THEN found
    ELSE ParseLines(lines, i + 1, IF FirstPair(lines[i], 1) # "none" THEN found + 1 ELSE found)

\* _extract_json: the type of the value returned and the branch that returned it
extract_json(text) ==
    LET whole == json_loads(text)
        braces == BraceMatch(text)
        inner == IF braces = << >> THEN "error" ELSE json_loads(braces)
    IN  IF whole # "error" THEN [type |-> whole, branch |-> "whole"]
        ELSE IF inner # "error" THEN [type |-> inner, branch |-> "regex"]
        ELSE IF ParseLines(SplitLines(text, 1, << >>), 1, 0) > 0
        THEN [type |-> "dict", branch |-> "lines"]
        ELSE [type |-> "dict", branch |-> "empty"]

NoJson == [type |-> "none", branch |-> "none"]

\* the texts of at most MaxTextLen tokens
TextsOfLen(n) == [1..n -> Tokens]

JsonInit ==
    /\ js_pc = "call"
    /\ \E n \in 0..MaxTextLen : js_text \in TextsOfLen(n)
    /\ js_result = NoJson

JsonIdle ==
    /\ js_pc = "idle"
    /\ js_text = << >>
    /\ js_result = NoJson

ExtractJson ==
    /\ js_pc = "call"
    /\ js_result' = extract_json(js_text)
    /\ js_pc' = "done"
    /\ UNCHANGED <<js_text, not_js>>

JsonNext == ExtractJson

\* C4: _extract_json returns a dictionary for every text: never another type.
C4_AlwaysReturnsDict == js_pc = "done" => js_result.type = "dict"

(***************************************************************************)
(* ImageAnalyzer.analyze_brightness_map (and its copy,                     *)
(* StudioImageGenerator._analyze_image_brightness_map)                     *)
(*                                                                         *)
(* An image is its grayscale pixels, image[y][x] in 0..255, rows 1..height *)
(* and columns 1..width. A brightness is kept as the fraction <<sum, n>>   *)
(* that the code divides: sum of the pixels over (count * 255).            *)
(***************************************************************************)
MaxSide == 4
PixelMax == 255
Pixels == {0, PixelMax}

Verts == <<"top", "middle", "bottom">>
Horizs == <<"left", "center", "right">>
RegionName(row, col) == <<Verts[row + 1], Horizs[col + 1]>>
Regions == {RegionName(row, col) : row \in 0..2, col \in 0..2}
Overall == <<"overall", "overall">>

\* sum(list(cell.getdata())) of the crop (left, upper, right, lower)
SumRow(pixels, x, right) ==
    IF x > right THEN 0 ELSE pixels[x] + SumRow(pixels, x + 1, right)

SumRows(img, y, lower, left, right) ==
    IF y > lower THEN 0
    ELSE SumRow(img[y], left + 1, right) + SumRows(img, y + 1, lower, left, right)

CropSum(img, left, upper, right, lower) == SumRows(img, upper + 1, lower, left, right)

\* analyze_brightness_map: raised is the ZeroDivisionError of a division by
\* cell_width * cell_height * 255 = 0 (or width * height * 255 = 0)
analyze_brightness_map(img) ==
    LET height == Len(img)
        width == IF height = 0 THEN 0 ELSE Len(img[1])
        cell_width == width \div 3
        cell_height == height \div 3
        cell(row, col) ==
            <<CropSum(img, col * cell_width, row * cell_height,
                      col * cell_width + cell_width, row * cell_height + cell_height),
              cell_width * cell_height * PixelMax>>
    IN  IF cell_width * cell_height * PixelMax = 0 \/ width * height * PixelMax = 0
        THEN [raised |-> TRUE, map |-> [r \in {} |-> <<0, 0>>]]
        ELSE [raised |-> FALSE,
              map |-> [r \in Regions \cup {Overall} |->
                         IF r = Overall
                         THEN <<CropSum(img, 0, 0, width, height), width * height * PixelMax>>
                         ELSE LET row == CHOOSE i \in 0..2 : Verts[i + 1] = r[1]
                                  col == CHOOSE j \in 0..2 : Horizs[j + 1] = r[2]
                              IN  cell(row, col)]]

NoMap == [raised |-> FALSE, map |-> [r \in {} |-> <<0, 0>>]]

BrightnessInit ==
    /\ bm_pc = "call"
    /\ \E w \in 1..MaxSide, h \in 1..MaxSide : image \in [1..h -> [1..w -> Pixels]]
    /\ brightness_map = NoMap

BrightnessIdle ==
    /\ bm_pc = "idle"
    /\ image = << >>
    /\ brightness_map = NoMap

AnalyzeBrightnessMap ==
    /\ bm_pc = "call"
    /\ brightness_map' = analyze_brightness_map(image)
    /\ bm_pc' = "done"
    /\ UNCHANGED <<image, not_bm>>

BrightnessNext == AnalyzeBrightnessMap

\* C5: for any image the brightness map has exactly ten entries, the nine
\* regions and 'overall', each between 0 and 1, also when the width or the
\* height is below 3 or no multiple of 3.
C5_TenEntriesInUnitRange ==
    bm_pc = "done" =>
        /\ ~brightness_map.raised
        /\ DOMAIN brightness_map.map = Regions \cup {Overall}
        /\ Cardinality(DOMAIN brightness_map.map) = 10
        /\ \A r \in DOMAIN brightness_map.map :
              /\ brightness_map.map[r][2] > 0
              /\ 0 <= brightness_map.map[r][1]
              /\ brightness_map.map[r][1] <= brightness_map.map[r][2]

(***************************************************************************)
(* ColorSchemeGenerator._ensure_text_contrast, _has_sufficient_contrast    *)
(*                                                                         *)
(* The simplified luminance (0.299 r + 0.587 g + 0.114 b) / 255 is kept as *)
(* the integer 299 r + 587 g + 114 b, in units of 1/255000: 0.5 is 127500, *)
(* 0.05 is 12750. The code computes in floats: a colour exactly on a        *)
(* threshold is decided by the rounding of its float sum, and the colours  *)
(* that fall below are listed. has_sufficient_contrast is exact for every  *)
(* colour against the two text colours of _ensure_text_contrast.           *)
(***************************************************************************)
ColorSteps == 8
ChannelValues == {(k * PixelMax) \div ColorSteps : k \in 0..ColorSteps}

HalfLuminance == 127500
ContrastOffset == 12750

Luminance(color) == 299 * color[1] + 587 * color[2] + 114 * color[3]

WhiteText == <<255, 255, 255, 255>>
NearBlackText == <<30, 30, 30, 255>>

\* the backgrounds of luminance exactly 0.5 whose float luminance is
\* 0.49999999999999994
RoundsBelowHalf ==
    {<<0, 204, 68>>, <<12, 174, 191>>, <<15, 195, 75>>, <<23, 175, 157>>, <<30, 186, 82>>,
     <<38, 166, 164>>, <<41, 187, 48>>, <<53, 157, 171>>, <<56, 178, 55>>, <<64, 158, 137>>,
     <<71, 169, 62>>, <<79, 149, 144>>, <<86, 160, 69>>, <<87, 129, 226>>, <<94, 140, 151>>,
     <<97, 161, 35>>, <<102, 120, 233>>, <<112, 152, 42>>, <<117, 111, 240>>, <<120, 132, 124>>,
     <<127, 143, 49>>, <<132, 102, 247>>, <<135, 123, 131>>, <<138, 144, 15>>, <<143, 103, 213>>,
     <<147, 93, 254>>, <<153, 135, 22>>, <<158, 94, 220>>, <<161, 115, 104>>, <<168, 126, 29>>,
     <<173, 85, 227>>, <<176, 106, 111>>, <<188, 76, 234>>, <<194, 118, 2>>, <<198, 108, 43>>,
     <<199, 77, 200>>, <<209, 109, 9>>, <<214, 68, 207>>, <<217, 89, 91>>, <<224, 100, 16>>,
     <<232, 80, 98>>, <<239, 91, 23>>, <<240, 60, 180>>, <<255, 51, 187>>}

\* white text on dark backgrounds, near-black text on light ones
ensure_text_contrast(color) ==
    IF Luminance(color) < HalfLuminance \/ color \in RoundsBelowHalf
    THEN WhiteText
    ELSE NearBlackText

Rgb(color) == <<color[1], color[2], color[3]>>

\* the colours whose ratio against the near-black text is exactly 4.5 and
\* whose float ratio is 4.499999999999999
RoundsBelowRatio ==
    {<<21, 252, 223>>, <<47, 244, 196>>, <<58, 245, 162>>, <<73, 236, 169>>, <<88, 227, 176>>,
     <<99, 228, 142>>, <<102, 249, 26>>, <<103, 218, 183>>, <<106, 239, 67>>, <<118, 209, 190>>,
     <<132, 231, 40>>, <<133, 200, 197>>, <<148, 191, 204>>, <<155, 202, 129>>, <<158, 223, 13>>,
     <<163, 182, 211>>, <<170, 193, 136>>, <<185, 184, 143>>, <<200, 175, 150>>, <<215, 166, 157>>,
     <<230, 157, 164>>, <<245, 148, 171>>, <<252, 159, 96>>}

\* ratio >= 4.5, the ratio being (lighter + 0.05) / (darker + 0.05)
has_sufficient_contrast(color1, color2) ==
    LET l1 == Luminance(color1)
        l2 == Luminance(color2)
        rounds_below ==
            \/ Rgb(color1) \in RoundsBelowRatio /\ Rgb(color2) = Rgb(NearBlackText)
            \/ Rgb(color2) \in RoundsBelowRatio /\ Rgb(color1) = Rgb(NearBlackText)
    IN  /\ ~rounds_below
        /\ IF l1 > l2
           THEN 2 * (l1 + ContrastOffset) >= 9 * (l2 + ContrastOffset)
           ELSE 2 * (l2 + ContrastOffset) >= 9 * (l1 + ContrastOffset)

NoColor == << >>

ContrastInit ==
    /\ cs_pc = "call"
    /\ background_color \in ChannelValues \X ChannelValues \X ChannelValues
    /\ text_color = NoColor

ContrastIdle ==
    /\ cs_pc = "idle"
    /\ background_color = NoColor
    /\ text_color = NoColor

EnsureTextContrast ==
    /\ cs_pc = "call"
    /\ text_color' = ensure_text_contrast(background_color)
    /\ cs_pc' = "done"
    /\ UNCHANGED <<background_color, not_cs>>

ContrastNext == EnsureTextContrast

\* C6: for every RGB background, the text colour _ensure_text_contrast
\* returns has sufficient contrast with it as _has_sufficient_contrast judges.
C6_TextColorHasContrast ==
    cs_pc = "done" => has_sufficient_contrast(background_color, text_color)

(***************************************************************************)
(* TypographyStyleManager.get_font, get_template_for_brand and load_font   *)
(*                                                                         *)
(* A font name is its text before the first '-' (family) and the '-'       *)
(* separated parts after it (weight, empty when the name has no '-'). A    *)
(* font file is a directory, a stem and an extension; the stem is a        *)
(* family, a separator and a weight.                                       *)
(***************************************************************************)
F(family, weight) == [family |-> family, weight |-> weight]

font_directories ==
    << "", "/usr/share/fonts/truetype/", "/usr/share/fonts/", "/Library/Fonts/",
       "C:\\Windows\\Fonts\\", "~/Library/Fonts", "~/.fonts" >>

FontExtensions == << "", ".ttf", ".otf", ".TTF", ".OTF" >>

font_styles ==
    [ modern |->
        [ headline |->
              <<F("Helvetica Neue", <<"Bold">>),
                F("SF Pro Display", <<"Bold">>), F("Arial", <<"Bold">>),
                F("Gotham", <<"Bold">>), F("Montserrat", <<"Bold">>),
                F("OpenSans", <<"Bold">>)>>,
          subheadline |->
              <<F("Helvetica Neue", <<"Regular">>),
                F("SF Pro Text", << >>), F("Arial", << >>),
                F("Gotham", <<"Medium">>), F("Montserrat", << >>),
                F("OpenSans", << >>)>>,
          body |->
              <<F("Helvetica Neue", <<"Light">>),
                F("SF Pro Text", <<"Light">>), F("Arial", << >>),
                F("Gotham", <<"Book">>), F("Montserrat", <<"Light">>),
                F("OpenSans", <<"Light">>)>>,
          cta |->
              <<F("Helvetica Neue", <<"Bold">>),
                F("SF Pro Text", <<"Semibold">>), F("Arial", <<"Bold">>),
                F("Gotham", <<"Bold">>), F("Montserrat", <<"Bold">>),
                F("OpenSans", <<"Bold">>)>> ],
      luxury |->
        [ headline |->
              <<F("Didot", <<"Bold">>), F("Bodoni", <<"Bold">>),
                F("Georgia", <<"Bold">>),
                F("Playfair Display", <<"Bold">>),
                F("TimesNewRoman", <<"Bold">>),
                F("Garamond", <<"Bold">>)>>,
          subheadline |->
              <<F("Didot", << >>), F("Bodoni", << >>),
                F("Georgia", << >>), F("Playfair Display", << >>),
                F("TimesNewRoman", << >>), F("Garamond", << >>)>>,
          body |->
              <<F("Didot", <<"Light">>), F("Bodoni", <<"Light">>),
                F("Georgia", << >>), F("Playfair Display", <<"Light">>),
                F("TimesNewRoman", << >>), F("Garamond", << >>)>>,
          cta |->
              <<F("Didot", <<"Bold">>), F("Bodoni", <<"Bold">>),
                F("Georgia", <<"Bold">>),
                F("Playfair Display", <<"Bold">>),
                F("TimesNewRoman", <<"Bold">>),
                F("Garamond", <<"Bold">>)>> ],
      minimal |->
        [ headline |->
              <<F("Futura", <<"Bold">>),
                F("Helvetica Neue", <<"Light">>),
                F("Montserrat", <<"Light">>), F("Gotham", <<"Light">>),
                F("OpenSans", <<"Light">>)>>,
          subheadline |->
              <<F("Futura", <<"Medium">>),
                F("Helvetica Neue", <<"Light">>),
                F("Montserrat", <<"Light">>), F("Gotham", <<"Light">>),
                F("OpenSans", <<"Light">>)>>,
          body |->
              <<F("Futura", <<"Light">>),
                F("Helvetica Neue", <<"Light">>),
                F("Montserrat", <<"Light">>), F("Gotham", <<"Light">>),
                F("OpenSans", <<"Light">>)>>,
          cta |->
              <<F("Futura", <<"Medium">>), F("Helvetica Neue", << >>),
                F("Montserrat", << >>), F("Gotham", <<"Book">>),
                F("OpenSans", << >>)>> ],
      bold |->
        [ headline |->
              <<F("Impact", << >>), F("Helvetica Neue", <<"Black">>),
                F("SF Pro Display", <<"Black">>),
                F("Montserrat", <<"Black">>), F("Arial", <<"Black">>),
                F("Gotham", <<"Black">>)>>,
          subheadline |->
              <<F("Helvetica Neue", <<"Bold">>),
                F("SF Pro Display", <<"Bold">>),
                F("Montserrat", <<"Bold">>), F("Arial", <<"Bold">>),
                F("Gotham", <<"Bold">>), F("OpenSans", <<"Bold">>)>>,
          body |->
              <<F("Helvetica Neue", << >>), F("SF Pro Text", << >>),
                F("Montserrat", << >>), F("Arial", << >>),
                F("Gotham", <<"Book">>), F("OpenSans", << >>)>>,
          cta |->
              <<F("Helvetica Neue", <<"Bold">>),
                F("SF Pro Display", <<"Bold">>),
                F("Montserrat", <<"Bold">>), F("Arial", <<"Bold">>),
                F("Gotham", <<"Bold">>), F("OpenSans", <<"Bold">>)>> ],
      elegant |->
        [ headline |->
              <<F("Baskerville", <<"Bold">>), F("Garamond", <<"Bold">>),
                F("Georgia", <<"Bold">>), F("TimesNewRoman", <<"Bold">>),
                F("Didot", <<"Bold">>)>>,
          subheadline |->
              <<F("Baskerville", << >>), F("Garamond", << >>),
                F("Georgia", << >>), F("TimesNewRoman", << >>),
                F("Didot", << >>)>>,
          body |->
              <<F("Baskerville", << >>), F("Garamond", << >>),
                F("Georgia", << >>), F("TimesNewRoman", << >>),
                F("Didot", << >>)>>,
          cta |->
              <<F("Baskerville", <<"Bold">>), F("Garamond", <<"Bold">>),
                F("Georgia", <<"Bold">>), F("TimesNewRoman", <<"Bold">>),
                F("Didot", <<"Bold">>)>> ],
      technical |->
        [ headline |->
              <<F("SF Pro Display", <<"Bold">>), F("Roboto", <<"Bold">>),
                F("SourceSansPro", <<"Bold">>), F("Calibri", <<"Bold">>),
                F("Helvetica Neue", <<"Bold">>), F("Arial", <<"Bold">>)>>,
          subheadline |->
              <<F("SF Pro Text", << >>), F("Roboto", << >>),
                F("SourceSansPro", << >>), F("Calibri", << >>),
                F("Helvetica Neue", << >>), F("Arial", << >>)>>,
          body |->
              <<F("SF Pro Text", <<"Light">>), F("Roboto", <<"Light">>),
                F("SourceSansPro", <<"Light">>), F("Calibri", << >>),
                F("Helvetica Neue", <<"Light">>), F("Arial", << >>)>>,
          cta |->
              <<F("SF Pro Display", <<"Bold">>), F("Roboto", <<"Bold">>),
                F("SourceSansPro", <<"Bold">>), F("Calibri", <<"Bold">>),
                F("Helvetica Neue", <<"Bold">>), F("Arial", <<"Bold">>)>> ] ]

DefaultFontList == << F("Arial", <<"Bold">>), F("Helvetica", <<"Bold">>) >>

\* TypographyStyleManager's brand templates: only these three brands
typography_brand_templates ==
    [ apple   |-> [style |-> "modern",   primary_font |-> F("SF Pro Display", << >>),
                   text_placement |-> "centered"],
      samsung |-> [style |-> "modern",   primary_font |-> F("Samsung Sans", << >>),
                   text_placement |-> "bottom_left"],
      nike    |-> [style |-> "athletic", primary_font |-> F("Futura", <<"Bold">>),
                   text_placement |-> "dynamic"] ]

brand_variations ==
    [ apple   |-> {"apple", "iphone", "ipad", "macbook", "imac"},
      samsung |-> {"samsung", "galaxy"},
      nike    |-> {"nike", "just do it", "nikeid"},
      bmw     |-> {"bmw", "bayerische motoren werke"},
      rolex   |-> {"rolex", "oyster", "daytona", "submariner"} ]

VariationOrder == <<"apple", "samsung", "nike", "bmw", "rolex">>

\* str.lower() on the strings the model draws
Lower(s) ==
    CASE s = "Apple" -> "apple"
      [] s = "NIKE" -> "nike"
      [] s = "Galaxy" -> "galaxy"
      [] s = "Modern" -> "modern"
      [] s = "Instagram" -> "instagram"
      [] s = "Technology " -> "technology "
      [] s = "Technology" -> "technology"
      [] s = "Left" -> "left"
      [] OTHER -> s

\* the keywords of get_font's style matching that a lower-cased style contains
StyleKeywords(style_lower) ==
    CASE style_lower = "modern" -> {"modern"}
      [] style_lower = "minimal clean" -> {"minimal", "clean"}
      [] style_lower = "sporty" -> {"sport"}
      [] OTHER -> {}

StyleKey(style) ==
    LET style_lower == Lower(style)
        has(words) == StyleKeywords(style_lower) \cap words # {}
    IN  IF style_lower \in DOMAIN font_styles THEN style_lower
        ELSE IF has({"modern", "sans"}) THEN "modern"
        ELSE IF has({"luxury", "premium", "high-end"}) THEN "luxury"
        ELSE IF has({"minimal", "clean", "simple"}) THEN "minimal"
        ELSE IF has({"bold", "strong", "powerful"}) THEN "bold"
        ELSE IF has({"elegant", "sophisticated", "classic"}) THEN "elegant"
        ELSE IF has({"technical", "digital", "tech"}) THEN "technical"
        ELSE IF has({"athletic", "sport"}) THEN "athletic"
        ELSE IF has({"fashion", "style"}) THEN "fashion"
        ELSE IF has({"auto", "car"}) THEN "automotive"
        ELSE "modern"

FontList(style, element) ==
    LET style_key == StyleKey(style)
    IN  IF style_key \in DOMAIN font_styles /\ element \in DOMAIN font_styles[style_key]
        THEN font_styles[style_key][element]
        ELSE DefaultFontList

Stem(family, sep, weight) == [family |-> family, sep |-> sep, weight |-> weight]

\* the file stems load_font tries for a name, in order: the name itself,
\* then "family weight", "familyweight" and "family_weight"
StemsOf(font_name) ==
    IF font_name.weight = << >>
    THEN << Stem(font_name.family, "", << >>) >>
    ELSE << Stem(font_name.family, "-", font_name.weight),
            Stem(font_name.family, " ", font_name.weight),
            Stem(font_name.family, "", font_name.weight),
            Stem(font_name.family, "_", font_name.weight) >>

IndexIn(seq, x) == CHOOSE i \in 1..Len(seq) : seq[i] = x

NoFile == [dir |-> "", stem |-> Stem("", "", << >>), ext |-> ""]
DefaultFont == [kind |-> "default", file |-> NoFile]
NoFont == [kind |-> "None", file |-> NoFile]
LoadDefault(ok) == IF ok THEN DefaultFont ELSE NoFont

\* load_font: the first path, by stem, then extension, then directory, that
\* exists and that ImageFont.truetype opens; else the default font, and None
\* only when the default font cannot be loaded either
load_font(font_name, files, unreadable, ok) ==
    LET stems == StemsOf(font_name)
        hits == {f \in files \ unreadable :
                    \E s \in 1..Len(stems) : f.stem = stems[s]}
        rank(f) == (IndexIn(stems, f.stem) * Len(FontExtensions)
                        + IndexIn(FontExtensions, f.ext)) * Len(font_directories)
                    + IndexIn(font_directories, f.dir)
    IN  IF hits # {}
        THEN [kind |-> "truetype",
              file |-> CHOOSE f \in hits : \A g \in hits : rank(f) <= rank(g)]
        ELSE LoadDefault(ok)

BrandFontName(primary_font, element) ==
    LET with(suffix) == F(primary_font.family, Append(primary_font.weight, suffix))
    IN  IF element = "headline" THEN with("Bold")
        ELSE IF element = "cta" THEN with("Semibold")
        ELSE IF element = "subheadline" THEN primary_font
        ELSE IF "Light" \notin {primary_font.weight[i] : i \in 1..Len(primary_font.weight)}
             THEN with("Light")
             ELSE primary_font

RECURSIVE FirstLoaded(_, _, _, _, _)
\* get_font's loop: the first name of the list for which load_font returns
\* a font object
FirstLoaded(font_list, i, files, unreadable, ok) ==
    IF i > Len(font_list) THEN LoadDefault(ok)
    ELSE LET font == load_font(font_list[i], files, unreadable, ok)
         IN  IF font.kind # "None" THEN font
             ELSE FirstLoaded(font_list, i + 1, files, unreadable, ok)

get_font(style, element, brand, files, unreadable, ok) ==
    LET from_list == FirstLoaded(FontList(style, element), 1, files, unreadable, ok)
    IN  IF brand # "" /\ Lower(brand) \in DOMAIN typography_brand_templates
        THEN LET primary_font == typography_brand_templates[Lower(brand)].primary_font
                 font == load_font(BrandFontName(primary_font, element),
                                   files, unreadable, ok)
             IN  IF font.kind # "None" THEN font ELSE from_list
        ELSE from_list

RECURSIVE FirstVariation(_, _)
\* the first key of brand_variations, in order, that lists the name
FirstVariation(brand_lower, i) ==
    IF i > Len(VariationOrder) THEN ""
    ELSE IF brand_lower \in brand_variations[VariationOrder[i]] THEN VariationOrder[i]
    ELSE FirstVariation(brand_lower, i + 1)

NoTemplate == [style |-> "", primary_font |-> F("", << >>), text_placement |-> ""]

\* get_template_for_brand: outcome "template", "None" or "KeyError"
get_template_for_brand(brand_name) ==
    LET brand_lower == Lower(brand_name)
        key == FirstVariation(brand_lower, 1)
    IN  IF brand_lower \in DOMAIN typography_brand_templates
        THEN [outcome |-> "template", template |-> typography_brand_templates[brand_lower]]
        ELSE IF key = "" THEN [outcome |-> "None", template |-> NoTemplate]
        ELSE IF key \in DOMAIN typography_brand_templates
        THEN [outcome |-> "template", template |-> typography_brand_templates[key]]
        ELSE [outcome |-> "KeyError", template |-> NoTemplate]

MaxFiles == 2
InstallableFonts ==
    { F("Helvetica Neue", <<"Bold">>), F("Arial", <<"Bold">>),
      F("Helvetica", <<"Bold">>), F("SF Pro Display", <<"Bold">>) }
FileDirs == { "", "/usr/share/fonts/truetype/" }
FileExts == { ".ttf" }
FileUniverse ==
    { [dir |-> d, stem |-> StemsOf(n)[s], ext |-> e] :
        d \in FileDirs, e \in FileExts,
        <<n, s>> \in { p \in InstallableFonts \X (1..4) : p[2] <= Len(StemsOf(p[1])) } }

RECURSIVE FileSets(_)
\* the sets of at most n files of the universe
FileSets(n) ==
    IF n = 0 THEN {{}}
    ELSE LET smaller == FileSets(n - 1)
         IN  smaller \cup {fs \cup {f} : fs \in smaller, f \in FileUniverse}

StyleInputs == { "Modern", "minimal clean", "sporty", "retro" }
ElementInputs == { "headline", "subheadline", "tagline" }
FontBrandInputs == { "", "Apple", "NIKE", "bmw" }
BrandNameInputs ==
    { "", "Apple", "NIKE", "Galaxy", "ipad", "bmw", "oyster", "acme" }

NoCall == [method |-> "", style |-> "", element |-> "", brand |-> ""]
NoStyleResult == [outcome |-> "", font |-> NoFont, template |-> NoTemplate]

StyleManagerInit ==
    /\ sm_pc = "call"
    /\ font_files \in FileSets(MaxFiles)
    /\ bad_files \in {{}} \cup {{f} : f \in font_files}
    /\ default_ok \in BOOLEAN
    /\ sm_call = NoCall
    /\ sm_result = NoStyleResult

StyleManagerIdle ==
    /\ sm_pc = "idle"
    /\ font_files = {}
    /\ bad_files = {}
    /\ default_ok = TRUE
    /\ sm_call = NoCall
    /\ sm_result = NoStyleResult

GetFont ==
    /\ sm_pc = "call"
    /\ \E style \in StyleInputs, element \in ElementInputs, brand \in FontBrandInputs :
        /\ sm_call' = [method |-> "get_font", style |-> style,
                       element |-> element, brand |-> brand]
        /\ sm_result' = [outcome |-> "returned",
                         font |-> get_font(style, element, brand,
                                           font_files, bad_files, default_ok),
                         template |-> NoTemplate]
    /\ sm_pc' = "done"
    /\ UNCHANGED <<font_files, bad_files, default_ok, not_sm>>

GetTemplateForBrand ==
    /\ sm_pc = "call"
    /\ \E brand_name \in BrandNameInputs :
        LET r == get_template_for_brand(brand_name)
        IN  /\ sm_call' = [method |-> "get_template_for_brand", style |-> "",
                           element |-> "", brand |-> brand_name]
            /\ sm_result' = [outcome |-> r.outcome, font |-> NoFont,
                             template |-> r.template]
    /\ sm_pc' = "done"
    /\ UNCHANGED <<font_files, bad_files, default_ok, not_sm>>

StyleManagerNext == GetFont \/ GetTemplateForBrand

\* a font name can be found: one of the files load_font looks for exists
\* and opens
Findable(font_name) ==
    \E f \in font_files \ bad_files :
        \E s \in 1..Len(StemsOf(font_name)) : f.stem = StemsOf(font_name)[s]

\* C7: when no brand font applies, get_font returns the first font of the
\* style and element's list that can be found in the font directories, and
\* the default font only when none of the listed fonts can be found.
C7_FirstFindableFont ==
    (/\ sm_pc = "done"
     /\ sm_call.method = "get_font"
     /\ Lower(sm_call.brand) \notin DOMAIN typography_brand_templates) =>
        LET font_list == FontList(sm_call.style, sm_call.element)
            found == {i \in 1..Len(font_list) : Findable(font_list[i])}
            first == CHOOSE i \in found : \A j \in found : i <= j
        IN  IF found = {}
            THEN sm_result.font.kind \in {"default", "None"}
            ELSE /\ sm_result.font.kind = "truetype"
                 /\ \E s \in 1..Len(StemsOf(font_list[first])) :
                        sm_result.font.file.stem = StemsOf(font_list[first])[s]

\* C8: get_template_for_brand returns a template when the brand name or one
\* of its listed variations is known and None otherwise, and never raises.
C8_TemplateOrNoneNeverRaises ==
    (sm_pc = "done" /\ sm_call.method = "get_template_for_brand") =>
        LET brand_lower == Lower(sm_call.brand)
            known == \/ brand_lower \in DOMAIN typography_brand_templates
                     \/ \E k \in DOMAIN brand_variations :
                            brand_lower \in brand_variations[k]
        IN  /\ sm_result.outcome # "KeyError"
            /\ sm_result.outcome = (IF known THEN "template" ELSE "None")

(***************************************************************************)
(* AdPatternsDatabase.get_industry_patterns, get_best_performing_pattern   *)
(*                                                                         *)
(* self.industries is an insertion-ordered dict: a sequence of records     *)
(* [name, data]. A pattern keeps the fields the lookups read; Absent marks *)
(* a missing number, and a missing platform or demographic is outside the  *)
(* DOMAIN of the performance functions.                                    *)
(***************************************************************************)
Absent == -1

Pattern(id, rate, platform_performance, demographic_performance, score) ==
    [ id |-> id,
      engagement_metrics |-> [average_engagement_rate |-> rate,
                              click_through_rate |-> Absent,
                              platform_performance |-> platform_performance],
      demographic_performance |-> demographic_performance,
      performance_score |-> score,
      added_on |-> Absent ]

\* the empty dict {}
EmptyPattern == Pattern("", Absent, << >>, << >>, Absent)

\* dict.get(key, 0) on a number that may be missing
GetOrZero(n) == IF n = Absent THEN 0 ELSE n

\* str.strip() on the strings the model draws
Strip(s) == IF s = "technology " THEN "technology" ELSE s

\* needle in hay, on the strings the model draws
Contains(hay, needle) ==
    \/ needle = ""
    \/ needle = hay
    \/ <<hay, needle>> \in { <<"technology", "tech">> }

industry_map ==
    [ tech |-> "technology", software |-> "technology", electronics |-> "technology",
      gadgets |-> "technology", clothing |-> "fashion", apparel |-> "fashion",
      wear |-> "fashion", restaurant |-> "food", dining |-> "food", grocery |-> "food",
      music |-> "entertainment", streaming |-> "entertainment",
      movie |-> "entertainment", automotive |-> "auto", vehicle |-> "auto",
      car |-> "auto" ]

\* f"{pattern_type}_patterns"
PatternsKey(pattern_type) ==
    CASE pattern_type = "headline" -> "headline_patterns"
      [] pattern_type = "visual" -> "visual_patterns"
      [] pattern_type = "copy" -> "copy_patterns"
      [] pattern_type = "calls_to_action" -> "calls_to_action_patterns"

\* the keys of an industry's entry: the lists the default database stores
\* and the lists add_new_pattern creates; an empty list is a missing key
IndustryKeys ==
    { "headline_patterns", "visual_approaches", "copy_structures", "calls_to_action",
      "visual_patterns", "copy_patterns", "calls_to_action_patterns" }

NoIndustryData == [k \in IndustryKeys |-> << >>]

\* the first index, in dict order, among hits; 0 when there is none
FirstIndustry(hits) ==
    IF hits = {} THEN 0 ELSE CHOOSE i \in hits : \A j \in hits : i <= j

\* the index in self.industries of the entry get_industry_patterns returns:
\* exact match, partial match, alias, then 'technology'; 0 when it returns
\* the fresh {} of self.industries.get('technology', {})
IndustryFor(inds, industry) ==
    LET industry_lower == Strip(Lower(industry))
        key(i) == Lower(inds[i].name)
        keys == 1..Len(inds)
        exact == FirstIndustry({i \in keys : key(i) = industry_lower})
        partial == FirstIndustry({i \in keys :
                        \/ Contains(key(i), industry_lower)
                        \/ Contains(industry_lower, key(i))})
        mapped == IF industry_lower \in DOMAIN industry_map
                  THEN FirstIndustry({i \in keys :
                            Contains(key(i), industry_map[industry_lower])})
                  ELSE 0
    IN  IF exact # 0 THEN exact
        ELSE IF partial # 0 THEN partial
        ELSE IF mapped # 0 THEN mapped
        ELSE FirstIndustry({i \in keys : inds[i].name = "technology"})

get_industry_patterns(inds, industry) ==
    IF IndustryFor(inds, industry) = 0 THEN NoIndustryData
    ELSE inds[IndustryFor(inds, industry)].data

\* industry_data.get(f"{pattern_type}_patterns", [])
PatternsOfType(industry_data, pattern_type) ==
    industry_data[PatternsKey(pattern_type)]

\* pattern.get('engagement_metrics', {}).get('platform_performance', {}) or
\* pattern.get('demographic_performance', {})
ScoresOf(pattern, filter) ==
    IF filter = "platform" THEN pattern.engagement_metrics.platform_performance
    ELSE pattern.demographic_performance

\* the copies, with performance_score replaced, of the patterns that have
\* a score for the key
FilterByScore(patterns, filter, key) ==
    LET HasKey(p) == key \in DOMAIN ScoresOf(p, filter)
        kept == SelectSeq(patterns, HasKey)
    IN  [i \in 1..Len(kept) |->
            [kept[i] EXCEPT !.performance_score = ScoresOf(kept[i], filter)[key]]]

\* sorted(patterns, key, reverse=True)[0]: the first pattern with the
\* largest key, keys[i] being the key of patterns[i]
FirstLargest(patterns, keys) ==
    LET best == CHOOSE i \in 1..Len(patterns) :
                    /\ \A j \in 1..Len(patterns) : keys[j] <= keys[i]
                    /\ \A j \in 1..(i - 1) : keys[j] < keys[i]
    IN  patterns[best]

get_best_performing_pattern(inds, pattern_type, industry, platform, demographic) ==
    LET stored == PatternsOfType(get_industry_patterns(inds, industry), pattern_type)
        platform_filtered == FilterByScore(stored, "platform", Lower(platform))
        by_platform == IF platform # "" /\ platform_filtered # << >>
                       THEN platform_filtered ELSE stored
        demo_filtered == FilterByScore(by_platform, "demographic", demographic)
        patterns == IF demographic # "" /\ platform_filtered = << >> /\ demo_filtered # << >>
                    THEN demo_filtered ELSE by_platform
        rates == [i \in 1..Len(patterns) |->
                    GetOrZero(patterns[i].engagement_metrics.average_engagement_rate)]
        scores == [i \in 1..Len(patterns) |-> GetOrZero(patterns[i].performance_score)]
        by_rate == FirstLargest(patterns, rates)
    IN  IF stored = << >> THEN [outcome |-> "returned", pattern |-> EmptyPattern]
        \* platform_filtered is bound only inside "if platform:"
        ELSE IF platform = "" /\ demographic # ""
        THEN [outcome |-> "UnboundLocalError", pattern |-> EmptyPattern]
        ELSE IF GetOrZero(by_rate.engagement_metrics.average_engagement_rate) = 0
        THEN [outcome |-> "returned", pattern |-> FirstLargest(patterns, scores)]
        ELSE [outcome |-> "returned", pattern |-> by_rate]

MaxPatterns == 2
PatternIds == <<"p1", "p2", "p3">>
Rates == {Absent, 2, 5}
PlatformPerformances == { << >>, [instagram |-> 7] }
DemographicPerformances == { << >>, [young |-> 4] }
Scores == {Absent, 6}

PatternsWithId(id) ==
    { Pattern(id, r, pp, dp, s) :
        r \in Rates, pp \in PlatformPerformances,
        dp \in DemographicPerformances, s \in Scores }

RECURSIVE PatternLists(_)
\* the lists of at most n patterns, with the ids in order
PatternLists(n) ==
    IF n = 0 THEN { << >> }
    ELSE LET shorter == PatternLists(n - 1)
         IN  shorter \cup { Append(l, p) : l \in { s \in shorter : Len(s) = n - 1 },
                                           p \in PatternsWithId(PatternIds[n]) }

FashionData ==
    [ NoIndustryData EXCEPT
        !.headline_patterns = << Pattern("f1", 3, [instagram |-> 9], << >>, Absent) >> ]

IndustryOrders ==
    { << >>, <<"technology">>, <<"fashion">>,
      <<"technology", "fashion">>, <<"fashion", "technology">> }

PatternTypeInputs == { "headline", "visual" }
IndustryInputs == { "Technology ", "tech", "clothing", "space", "" }
PlatformInputs == { "", "Instagram", "tiktok" }
DemographicInputs == { "", "young", "senior" }

NoPatternCall ==
    [ method |-> "", pattern_type |-> "", industry |-> "", platform |-> "",
      demographic |-> "", pattern_data |-> EmptyPattern, pattern_id |-> "",
      performance_data |-> << >> ]
NoPatternResult == [outcome |-> "", pattern |-> EmptyPattern]

PatternsInit ==
    /\ db_pc = "call"
    /\ \E order \in IndustryOrders, headlines \in PatternLists(MaxPatterns) :
        industries =
            [ i \in 1..Len(order) |->
                [ name |-> order[i],
                  data |-> IF order[i] = "technology"
                           THEN [NoIndustryData EXCEPT !.headline_patterns = headlines]
                           ELSE FashionData ] ]
    /\ db_call = NoPatternCall
    /\ db_result = NoPatternResult

PatternsIdle ==
    /\ db_pc = "idle"
    /\ industries = << >>
    /\ db_call = NoPatternCall
    /\ db_result = NoPatternResult

GetBestPerformingPattern ==
    /\ db_pc = "call"
    /\ \E pattern_type \in PatternTypeInputs, industry \in IndustryInputs,
          platform \in PlatformInputs, demographic \in DemographicInputs :
        /\ db_call' = [NoPatternCall EXCEPT
                         !.method = "get_best_performing_pattern",
                         !.pattern_type = pattern_type, !.industry = industry,
                         !.platform = platform, !.demographic = demographic]
        /\ db_result' = get_best_performing_pattern(industries, pattern_type, industry,
                                                    platform, demographic)
    /\ db_pc' = "done"
    /\ UNCHANGED <<industries, not_db>>

\* what uuid4 and datetime.now() give add_new_pattern
GeneratedId(pattern_type) ==
    IF pattern_type = "headline" THEN "headline_uuid" ELSE "visual_uuid"
Now == 1

\* the index of self.industries[industry], 0 when the key is missing
IndustryIndex(inds, industry) ==
    IF \E i \in 1..Len(inds) : inds[i].name = industry
    THEN CHOOSE i \in 1..Len(inds) : inds[i].name = industry
    ELSE 0

\* add_new_pattern: the industry's entry and the list are created when
\* missing, under the industry name as given; pattern_data gets an id when
\* it has none and a timestamp, and is appended
add_new_pattern(inds, pattern_type, industry, pattern_data) ==
    LET with_industry == IF IndustryIndex(inds, industry) = 0
                         THEN Append(inds, [name |-> industry, data |-> NoIndustryData])
                         ELSE inds
        at == IndustryIndex(with_industry, industry)
        patterns_key == PatternsKey(pattern_type)
        stored == [pattern_data EXCEPT
                      !.id = IF pattern_data.id = "" THEN GeneratedId(pattern_type)
                             ELSE pattern_data.id,
                      !.added_on = Now]
    IN  [ industries |-> [with_industry EXCEPT
                             ![at].data[patterns_key] = Append(@, stored)],
          outcome |-> "True",
          pattern |-> stored ]

AddTypeInputs == { "headline", "visual" }
AddIndustryInputs == { "technology", "Technology", "tech", "toys" }
AddPatternInputs ==
    { Pattern(id, 5, [instagram |-> 7], << >>, Absent) : id \in {"", "p1", "n1"} }

AddNewPattern ==
    /\ db_pc = "call"
    /\ \E pattern_type \in AddTypeInputs, industry \in AddIndustryInputs,
          pattern_data \in AddPatternInputs :
        LET r == add_new_pattern(industries, pattern_type, industry, pattern_data)
        IN  /\ db_call' = [NoPatternCall EXCEPT
                             !.method = "add_new_pattern",
                             !.pattern_type = pattern_type, !.industry = industry,
                             !.pattern_data = pattern_data]
            /\ industries' = r.industries
            /\ db_result' = [outcome |-> r.outcome, pattern |-> r.pattern]
    /\ db_pc' = "done"
    /\ UNCHANGED not_db

PatternsNext == GetBestPerformingPattern \/ AddNewPattern

\* The numbers update_patterns_with_feedback computes with are Python
\* floats, IEEE 754 doubles: a mantissa of MantissaBits bits and an exponent,
\* the value being mant * 2^exp (zero has no mantissa). The numbers here are
\* not negative and far from the largest and the smallest double. A
\* mantissa, and every natural number the arithmetic goes through, is the
\* sequence of its digits in base Limb, the least significant first, without
\* leading zeros.
MantissaBits == 53
Limb == 2^15

RECURSIVE BigOf(_)
BigOf(n) == IF n = 0 THEN << >> ELSE <<n % Limb>> \o BigOf(n \div Limb)

RECURSIVE Trim(_)
Trim(a) ==
    IF a # << >> /\ a[Len(a)] = 0 THEN Trim(SubSeq(a, 1, Len(a) - 1)) ELSE a

Rest(a) == IF a = << >> THEN << >> ELSE Tail(a)
Low(a) == IF a = << >> THEN 0 ELSE a[1]

RECURSIVE MulSmall(_, _, _)
\* a * k + carry, for k and carry below Limb
MulSmall(a, k, carry) ==
    IF a = << >> THEN BigOf(carry)
    ELSE <<(a[1] * k + carry) % Limb>> \o MulSmall(Tail(a), k, (a[1] * k + carry) \div Limb)

RECURSIVE AddBig(_, _, _)
AddBig(a, b, carry) ==
    IF a = << >> /\ b = << >> THEN BigOf(carry)
    ELSE <<(Low(a) + Low(b) + carry) % Limb>>
            \o AddBig(Rest(a), Rest(b), (Low(a) + Low(b) + carry) \div Limb)

RECURSIVE SubBig(_, _, _)
\* a - b - borrow, for a >= b + borrow
SubBig(a, b, borrow) ==
    IF a = << >> THEN << >>
    ELSE IF a[1] - Low(b) - borrow < 0
    THEN <<a[1] - Low(b) - borrow + Limb>> \o SubBig(Tail(a), Rest(b), 1)
    ELSE <<a[1] - Low(b) - borrow>> \o SubBig(Tail(a), Rest(b), 0)

RECURSIVE MulBig(_, _)
MulBig(a, b) ==
    IF b = << >> THEN << >>
    ELSE Trim(AddBig(MulSmall(a, b[1], 0), <<0>> \o MulBig(a, Tail(b)), 0))

RECURSIVE DivSmall(_, _)
\* the quotient and the remainder of a by d, for 0 < d <= Limb
DivSmall(a, d) ==
    IF a = << >> THEN [quot |-> << >>, rem |-> 0]
    ELSE LET high == DivSmall(Tail(a), d)
         IN  [quot |-> <<(high.rem * Limb + a[1]) \div d>> \o high.quot,
              rem |-> (high.rem * Limb + a[1]) % d]

RECURSIVE BigLeq(_, _)
BigLeq(a, b) ==
    IF Len(a) # Len(b) THEN Len(a) < Len(b)
    ELSE IF a = << >> THEN TRUE
    ELSE IF a[Len(a)] # b[Len(b)] THEN a[Len(a)] < b[Len(b)]
    ELSE BigLeq(SubSeq(a, 1, Len(a) - 1), SubSeq(b, 1, Len(b) - 1))

RECURSIVE Bits(_)
Bits(n) == IF n = 0 THEN 0 ELSE 1 + Bits(n \div 2)

BitLen(a) == IF a = << >> THEN 0 ELSE 15 * (Len(a) - 1) + Bits(a[Len(a)])

\* a * 2^k
ShiftLeft(a, k) ==
    Trim([i \in 1..(k \div 15) |-> 0] \o MulSmall(a, 2^(k % 15), 0))

\* a \div 2^k, and whether a one was shifted out
ShiftRight(a, k) ==
    LET drop == IF k \div 15 < Len(a) THEN k \div 15 ELSE Len(a)
        low == DivSmall(SubSeq(a, drop + 1, Len(a)), 2^(k % 15))
    IN  [quot |-> Trim(low.quot),
         lost |-> low.rem # 0 \/ \E i \in 1..drop : a[i] # 0]

Zero == [mant |-> << >>, exp |-> 0]

\* the double nearest to n * 2^e (plus less than 2^e when lost), ties to the
\* even mantissa
Round(n, e, lost) ==
    IF n = << >> THEN Zero
    ELSE IF BitLen(n) <= MantissaBits
    THEN [mant |-> ShiftLeft(n, MantissaBits - BitLen(n)),
          exp |-> e - (MantissaBits - BitLen(n))]
    ELSE LET shift == BitLen(n) - MantissaBits
             kept == ShiftRight(n, shift - 1)
             down == ShiftRight(kept.quot, 1).quot
             up == /\ kept.quot[1] % 2 = 1
                   /\ kept.lost \/ lost \/ down[1] % 2 = 1
             rounded == IF up THEN AddBig(down, <<1>>, 0) ELSE down
         IN  IF BitLen(rounded) > MantissaBits
             THEN [mant |-> ShiftRight(rounded, 1).quot, exp |-> e + shift + 1]
             ELSE [mant |-> rounded, exp |-> e + shift]

RECURSIVE DivTens(_, _, _)
\* n \div 10^places, and whether there was a remainder
DivTens(n, places, lost) ==
    IF places = 0 THEN [quot |-> n, lost |-> lost]
    ELSE DivTens(Trim(DivSmall(n, 10).quot), places - 1,
                 lost \/ DivSmall(n, 10).rem # 0)

\* the float a number written digits / 10^places is read as: 5.2 is
\* Float(52, 1), 20 is Float(20, 0)
Float(digits, places) ==
    LET scaled == DivTens(ShiftLeft(BigOf(digits), 64 + 4 * places), places, FALSE)
    IN  Round(scaled.quot, 0 - (64 + 4 * places), scaled.lost)

\* a * b
FMul(a, b) == Round(MulBig(a.mant, b.mant), a.exp + b.exp, FALSE)

\* a + b
FAdd(a, b) ==
    IF a = Zero THEN b
    ELSE IF b = Zero THEN a
    ELSE LET high == IF a.exp >= b.exp THEN a ELSE b
             low == IF a.exp >= b.exp THEN b ELSE a
         IN  IF high.exp - low.exp > 60 THEN high
             ELSE Round(AddBig(ShiftLeft(high.mant, high.exp - low.exp), low.mant, 0),
                        low.exp, FALSE)

\* a metric that is not in the dictionary
NoNumber == [mant |-> << >>, exp |-> Absent]

NineTenths == Float(9, 1)
OneTenth == Float(1, 1)

\* metrics[metric] * 0.9 + value * 0.1
Blend(old, new) == FAdd(FMul(old, NineTenths), FMul(new, OneTenth))

\* a value the arithmetic of line 367 accepts
IsNumber(value) == DOMAIN value = {"mant", "exp"} /\ value # NoNumber

RECURSIVE UpdatedMetrics(_, _, _)
\* the loop over performance_data.items() from the i-th item on, in the
\* order of the dictionary: a metric in metrics is blended, a metric not in
\* metrics is set. The multiplication raises TypeError on a value that is
\* not a number, and the loop stops with the earlier metrics already
\* rewritten in the pattern's own dictionary.
UpdatedMetrics(metrics, performance_data, i) ==
    IF i > Len(performance_data) THEN [metrics |-> metrics, raised |-> FALSE]
    ELSE LET metric == performance_data[i][1]
             value == performance_data[i][2]
         IN  IF metrics[metric] = NoNumber
             THEN UpdatedMetrics([metrics EXCEPT ![metric] = value], performance_data, i + 1)
             ELSE IF ~IsNumber(metrics[metric]) \/ ~IsNumber(value)
             THEN [metrics |-> metrics, raised |-> TRUE]
             ELSE UpdatedMetrics([metrics EXCEPT ![metric] = Blend(@, value)],
                                 performance_data, i + 1)

\* update_patterns_with_feedback: the first pattern with the id among the
\* patterns of the type that get_industry_patterns returns gets new metrics
\* and the call returns True; "except Exception: return False" ends a call
\* whose loop raised and leaves the metrics as the loop wrote them
update_patterns_with_feedback(inds, pattern_type, industry, pattern_id, performance_data) ==
    LET at == IndustryFor(inds, industry)
        patterns_key == PatternsKey(pattern_type)
        patterns == PatternsOfType(get_industry_patterns(inds, industry), pattern_type)
        hits == {j \in 1..Len(patterns) : patterns[j].id = pattern_id}
        first == CHOOSE j \in hits : \A k \in hits : j <= k
        updated == UpdatedMetrics(patterns[first].engagement_metrics, performance_data, 1)
    IN  IF hits = {} THEN [industries |-> inds, outcome |-> "False"]
        ELSE [ industries |->
                 [inds EXCEPT ![at].data[patterns_key][first].engagement_metrics =
                     updated.metrics],
               outcome |-> IF updated.raised THEN "False" ELSE "True" ]

MaxFeedbackPatterns == 2
FeedbackRates == {NoNumber, Float(20, 0)}
FeedbackClickRates == {NoNumber, Float(2, 0)}
FeedbackValues == {Float(50, 0), Float(52, 1)}
\* a dictionary of platform values, as the stored platform_performance is
FeedbackDicts == {[instagram |-> 9]}
NumericMetrics == {"average_engagement_rate", "click_through_rate"}
FeedbackMetrics == NumericMetrics \cup {"platform_performance"}

FeedbackPattern(id, rate, click_rate) ==
    [ Pattern(id, rate, [instagram |-> 7], << >>, Absent) EXCEPT
        !.engagement_metrics.click_through_rate = click_rate ]

RECURSIVE FeedbackLists(_)
\* the lists of at most n patterns, with the ids in order
FeedbackLists(n) ==
    IF n = 0 THEN { << >> }
    ELSE LET shorter == FeedbackLists(n - 1)
         IN  shorter \cup
             { Append(l, FeedbackPattern(PatternIds[n], r, c)) :
                 l \in { s \in shorter : Len(s) = n - 1 },
                 <<r, c>> \in FeedbackRates \X FeedbackClickRates }

FeedbackFashionData ==
    [ NoIndustryData EXCEPT !.headline_patterns = << FeedbackPattern("p1", Float(48, 1), NoNumber) >> ]

FeedbackIndustryInputs == { "technology", "clothing", "space" }
PatternIdInputs == { "p1", "p2", "zz" }
\* the values a caller supplies for a metric: numbers and a dictionary
SuppliedValues == FeedbackValues \cup FeedbackDicts
\* the dictionaries performance_data can be, as their items in order
PerformanceDataInputs ==
    { items \in UNION { [1..n -> FeedbackMetrics \X SuppliedValues] :
                          n \in 0..Cardinality(FeedbackMetrics) } :
        \A i, j \in 1..Len(items) : items[i][1] = items[j][1] => i = j }

FeedbackInit ==
    /\ db_pc = "call"
    /\ \E order \in IndustryOrders, headlines \in FeedbackLists(MaxFeedbackPatterns) :
        industries =
            [ i \in 1..Len(order) |->
                [ name |-> order[i],
                  data |-> IF order[i] = "technology"
                           THEN [NoIndustryData EXCEPT !.headline_patterns = headlines]
                           ELSE FeedbackFashionData ] ]
    /\ db_call = NoPatternCall
    /\ db_result = NoPatternResult

UpdatePatternsWithFeedback ==
    /\ db_pc = "call"
    /\ \E pattern_type \in PatternTypeInputs, industry \in FeedbackIndustryInputs,
          pattern_id \in PatternIdInputs, performance_data \in PerformanceDataInputs :
        LET r == update_patterns_with_feedback(industries, pattern_type, industry,
                                               pattern_id, performance_data)
        IN  /\ db_call' = [NoPatternCall EXCEPT
                             !.method = "update_patterns_with_feedback",
                             !.pattern_type = pattern_type, !.industry = industry,
                             !.pattern_id = pattern_id,
                             !.performance_data = performance_data]
            /\ industries' = r.industries
            /\ db_result' = [outcome |-> r.outcome, pattern |-> EmptyPattern]
    /\ db_pc' = "done"
    /\ UNCHANGED not_db

FeedbackNext == UpdatePatternsWithFeedback

\* the patterns the call's industry stores for the call's pattern type
StoredForCall ==
    PatternsOfType(get_industry_patterns(industries, db_call.industry),
                   db_call.pattern_type)

\* C9: when the industry has a pattern of the requested type,
\* get_best_performing_pattern does not raise and returns a stored pattern
\* or a copy of one with another performance_score, whether or not a
\* platform and a demographic are given.
C9_BestPatternNeverRaises ==
    (/\ db_pc = "done"
     /\ db_call.method = "get_best_performing_pattern"
     /\ StoredForCall # << >>) =>
        /\ db_result.outcome = "returned"
        /\ \E i \in 1..Len(StoredForCall) :
            [db_result.pattern EXCEPT !.performance_score = Absent]
                = [StoredForCall[i] EXCEPT !.performance_score = Absent]

(***************************************************************************)
(* MarketplaceScraper.run_comprehensive_scraping_session and               *)
(* scroll_and_collect_ads                                                  *)
(*                                                                         *)
(* Ads are counted, not named: every link a scroll reveals is a new href   *)
(* of this category. The code waits inside login (time.sleep(2), then      *)
(* WebDriverWait.until), inside navigate_to_marketplace (time.sleep(3))    *)
(* and inside every iteration of the scroll loop (time.sleep(2)): an       *)
(* action is the code from one wait to the next, and sc_pc names the wait  *)
(* the call is in.                                                         *)
(***************************************************************************)
MaxAdsAsked == 3
MaxCategories == 2
MaxNewAds == 2
MaxScrolls == 3

NoSession == [max_ads |-> 0, categories |-> 0]
NoAds == [returned |-> FALSE, raised |-> FALSE, ads |-> 0]

\* "if not categories: categories = ['']"
CategoryCount(categories) == IF categories = 0 THEN 1 ELSE categories

ScraperInit ==
    /\ sc_pc = "login"
    /\ sc_args \in [max_ads : 0..MaxAdsAsked, categories : 0..MaxCategories]
    /\ sc_category = 0
    /\ sc_scrolls = 0
    /\ category_ads = 0
    /\ collected_ads = 0
    /\ sc_result = NoAds

ScraperIdle ==
    /\ sc_pc = "idle"
    /\ sc_args = NoSession
    /\ sc_category = 0
    /\ sc_scrolls = 0
    /\ category_ads = 0
    /\ collected_ads = 0
    /\ sc_result = NoAds

\* the finally block: driver.quit() ends the session, or raises out of it
CloseBrowser(ads) ==
    /\ sc_pc' = "done"
    /\ \E quit_raises \in BOOLEAN :
        sc_result' = IF quit_raises
                     THEN [returned |-> FALSE, raised |-> TRUE, ads |-> 0]
                     ELSE [returned |-> TRUE, raised |-> FALSE, ads |-> ads]

\* login() up to its time.sleep(2): the credentials are there and
\* driver.get opened the login page
OpenLoginPage ==
    /\ sc_pc = "login"
    /\ sc_pc' = "login_sleep"
    /\ UNCHANGED <<sc_args, sc_category, sc_scrolls, category_ads, collected_ads,
                   sc_result, not_sc>>

\* login() from the sleep to WebDriverWait.until: the fields are found and
\* filled, the button is clicked
SubmitLogin ==
    /\ sc_pc = "login_sleep"
    /\ sc_pc' = "login_until"
    /\ UNCHANGED <<sc_args, sc_category, sc_scrolls, category_ads, collected_ads,
                   sc_result, not_sc>>

\* the wait ended and current_url has no "login": login() returns True, on
\* to the first category
LoginSucceeds ==
    /\ sc_pc = "login_until"
    /\ sc_pc' = "category"
    /\ sc_category' = 1
    /\ UNCHANGED <<sc_args, sc_scrolls, category_ads, collected_ads, sc_result, not_sc>>

\* login() returns False or raises, before the sleep (no credentials,
\* driver.get raising), after it (a field is not found) or after the wait
\* (it timed out, or current_url still has "login"): the session returns
\* the empty list
LoginFails ==
    /\ sc_pc \in {"login", "login_sleep", "login_until"}
    /\ CloseBrowser(0)
    /\ UNCHANGED <<sc_args, sc_category, sc_scrolls, category_ads, collected_ads, not_sc>>

\* collected_ads.extend(ads), then the next category or save_collected_data
EndCategory(ads) ==
    /\ collected_ads' = collected_ads + ads
    /\ category_ads' = 0
    /\ sc_scrolls' = 0
    /\ IF sc_category < CategoryCount(sc_args.categories)
       THEN sc_category' = sc_category + 1 /\ sc_pc' = "category"
       ELSE sc_category' = sc_category /\ sc_pc' = "save"

\* scroll_and_collect_ads up to the time.sleep(3) of
\* navigate_to_marketplace: driver.get opens the category page, or raises
\* (the category yields [])
StartCategory ==
    /\ sc_pc = "category"
    /\ \E get_raises \in BOOLEAN :
        IF get_raises
        THEN EndCategory(0)
        ELSE /\ sc_pc' = "navigate_sleep"
             /\ UNCHANGED <<sc_category, sc_scrolls, category_ads, collected_ads>>
    /\ UNCHANGED <<sc_args, sc_result, not_sc>>

\* scroll_and_collect_ads from that sleep to the first scrollTo: current_url
\* or the first scrollHeight raises (the category yields []), or max_ads is
\* 0 and the loop is not entered, or scrollTo raises in the first
\* iteration, or it scrolls
EnterScrollLoop ==
    /\ sc_pc = "navigate_sleep"
    /\ \E driver_raises \in BOOLEAN :
        IF driver_raises \/ ~(0 < sc_args.max_ads)
        THEN EndCategory(0)
        ELSE /\ sc_pc' = "scroll_sleep"
             /\ UNCHANGED <<sc_category, sc_scrolls, category_ads, collected_ads>>
    /\ UNCHANGED <<sc_args, sc_result, not_sc>>

\* one iteration of "while len(collected_ads) < max_ads" after its
\* time.sleep(2): the page shows new ads with details, which are appended
\* until max_ads is reached; the loop ends there, at the bottom of the
\* page, or on a driver error (in this iteration, or in the scrollTo of the
\* next one); otherwise the next iteration scrolls and sleeps
Scroll ==
    /\ sc_pc = "scroll_sleep"
    /\ \E new_ads \in 0..MaxNewAds, bottom \in BOOLEAN, driver_raises \in BOOLEAN :
        LET ads == IF category_ads + new_ads >= sc_args.max_ads
                   THEN sc_args.max_ads ELSE category_ads + new_ads
        IN  /\ (sc_scrolls + 1 >= MaxScrolls) => bottom
            /\ IF driver_raises \/ bottom \/ ~(ads < sc_args.max_ads)
               THEN EndCategory(ads)
               ELSE /\ category_ads' = ads
                    /\ sc_scrolls' = sc_scrolls + 1
                    /\ UNCHANGED <<sc_pc, sc_category, collected_ads>>
    /\ UNCHANGED <<sc_args, sc_result, not_sc>>

\* save_collected_data, the finally block and "return collected_ads"
SaveAndReturn ==
    /\ sc_pc = "save"
    /\ CloseBrowser(collected_ads)
    /\ UNCHANGED <<sc_args, sc_category, sc_scrolls, category_ads, collected_ads, not_sc>>

ScraperNext ==
    \/ OpenLoginPage
    \/ SubmitLogin
    \/ LoginSucceeds
    \/ LoginFails
    \/ StartCategory
    \/ EnterScrollLoop
    \/ Scroll
    \/ SaveAndReturn

\* C11: the session returns at most max_ads ads in total, whatever the
\* list of categories.
C11_AtMostMaxAdsInTotal ==
    sc_result.returned => sc_result.ads <= sc_args.max_ads

\* every pattern of the industries dictionary before the step is there,
\* unchanged, after it
PatternsKept ==
    \A i \in 1..Len(industries) :
        /\ i <= Len(industries')
        /\ industries'[i].name = industries[i].name
        /\ \A k \in IndustryKeys : \A j \in 1..Len(industries[i].data[k]) :
            /\ j <= Len(industries'[i].data[k])
            /\ industries'[i].data[k][j] = industries[i].data[k][j]

\* C12: after add_new_pattern returned True, get_industry_patterns(industry)
\* returns an entry whose list for the pattern type contains pattern_data,
\* and every pattern stored before the call is still there, unchanged.
C12_AddedPatternIsFound ==
    [][(db_pc = "call" /\ db_call'.method = "add_new_pattern"
            /\ db_result'.outcome = "True") =>
        LET entry == get_industry_patterns(industries', db_call'.industry)
            listed == entry[PatternsKey(db_call'.pattern_type)]
        IN  /\ \E j \in 1..Len(listed) : listed[j] = db_result'.pattern
            /\ PatternsKept]_vars

\* the patterns of the call's type in the entry the call's industry names
CalledPatterns(inds) ==
    get_industry_patterns(inds, db_call'.industry)[PatternsKey(db_call'.pattern_type)]

\* the mantissa of x at the exponent e <= x.exp
MantissaAt(x, e) == ShiftLeft(x.mant, x.exp - e)

\* new is 0.9 x old + 0.1 x value up to the rounding of the float
\* operations: 10 new and 9 old + value differ by less than 2^-50 of
\* their size
IsBlendOf(old, value, new) ==
    LET e == Min(Min(old.exp, value.exp), new.exp)
        claimed == AddBig(MulSmall(MantissaAt(old, e), 9, 0), MantissaAt(value, e), 0)
        stored == MulSmall(MantissaAt(new, e), 10, 0)
        gap == IF BigLeq(claimed, stored) THEN Trim(SubBig(stored, claimed, 0))
               ELSE Trim(SubBig(claimed, stored, 0))
    IN  BigLeq(ShiftLeft(gap, 50), claimed)

\* what the claim says of one metric: blended when it was there, set when
\* it was not, left alone when it is not supplied; no value is 0.9 x old +
\* 0.1 x new when old or new is not a number
MetricAsClaimed(old, new, metric) ==
    LET items == db_call'.performance_data
        supplied == {i \in 1..Len(items) : items[i][1] = metric}
        value == items[CHOOSE i \in supplied : TRUE][2]
    IN  IF supplied = {} THEN new = old
        ELSE IF old = NoNumber THEN new = value
        ELSE IsNumber(old) /\ IsNumber(value) /\ IsBlendOf(old, value, new)

\* C13: when a pattern with the id exists among the industry's patterns of
\* the type, update_patterns_with_feedback returns True and changes only
\* that pattern's engagement_metrics, each supplied metric as 0.9 x old +
\* 0.1 x new or, when it was absent, as supplied; otherwise it returns
\* False and changes nothing.
C13_FeedbackUpdatesOnlyThatPattern ==
    [][(db_pc = "call" /\ db_call'.method = "update_patterns_with_feedback") =>
        LET before == CalledPatterns(industries)
            hits == {j \in 1..Len(before) : before[j].id = db_call'.pattern_id}
            first == CHOOSE j \in hits : \A k \in hits : j <= k
            at == IndustryFor(industries, db_call'.industry)
            key == PatternsKey(db_call'.pattern_type)
            after == industries'[at].data[key][first]
        IN  IF hits = {}
            THEN db_result'.outcome = "False" /\ industries' = industries
            ELSE /\ db_result'.outcome = "True"
                 /\ industries' = [industries EXCEPT
                        ![at].data[key][first].engagement_metrics =
                            after.engagement_metrics]
                 /\ \A metric \in FeedbackMetrics :
                        MetricAsClaimed(before[first].engagement_metrics[metric],
                                        after.engagement_metrics[metric], metric)]_vars
(***************************************************************************)
(* TextPlacementEngine.check_text_overlaps on its own                      *)
(*                                                                         *)
(* The dictionaries are the ones get_text_bounding_boxes builds: a box is  *)
(* <<x, y, x + text_width, y + text_height>>, and a text whose getbbox has *)
(* no extent in one direction gives a box of width or height 0.            *)
(***************************************************************************)
MaxBoxes == 2
MaxCorner == 1
MaxExtent == 2

BoxUniverse ==
    {<<x, y, x + w, y + h>> : x \in 0..MaxCorner, y \in 0..MaxCorner,
                              w \in 0..MaxExtent, h \in 0..MaxExtent}

KeySets == {k \in SUBSET Elements : Cardinality(k) <= MaxBoxes}

OverlapsInit ==
    /\ ov_pc = "call"
    /\ \E k \in KeySets : ov_boxes \in [k -> BoxUniverse]
    /\ ov_result = << >>

OverlapsIdle ==
    /\ ov_pc = "idle"
    /\ ov_boxes = NoPositions
    /\ ov_result = << >>

CheckTextOverlaps ==
    /\ ov_pc = "call"
    /\ ov_result' = check_text_overlaps(ov_boxes)
    /\ ov_pc' = "done"
    /\ UNCHANGED <<ov_boxes, not_ov>>

OverlapsNext == CheckTextOverlaps

\* the area of the intersection of two boxes
IntersectionArea(box1, box2) ==
    LET w == Min(box1[3], box2[3]) - Max(box1[1], box2[1])
        h == Min(box1[4], box2[4]) - Max(box1[2], box2[2])
    IN  IF w > 0 /\ h > 0 THEN w * h ELSE 0

IntersectingPairs(boxes) ==
    {{e1, e2} : e1, e2 \in DOMAIN boxes} \cap
    {p \in SUBSET DOMAIN boxes :
        /\ Cardinality(p) = 2
        /\ \A e1, e2 \in p : e1 # e2 => IntersectionArea(boxes[e1], boxes[e2]) > 0}

ReportedPairs == {{ov_result[i][1], ov_result[i][2]} : i \in 1..Len(ov_result)}

\* C15: check_text_overlaps returns exactly the unordered pairs of elements
\* whose bounding boxes intersect with positive area, each such pair once and
\* no other pair.
C15_ExactlyIntersectingPairs ==
    ov_pc = "done" =>
        /\ ReportedPairs = IntersectingPairs(ov_boxes)
        /\ Len(ov_result) = Cardinality(ReportedPairs)

HasExtent(box) == box[1] < box[3] /\ box[2] < box[4]

\* for boxes that all have a width and a height the list is exactly the pairs
\* that intersect with positive area
OverlapsExactForBoxesWithExtent ==
    ov_pc = "done" /\ (\A e \in DOMAIN ov_boxes : HasExtent(ov_boxes[e])) =>
        /\ ReportedPairs = IntersectingPairs(ov_boxes)
        /\ Len(ov_result) = Cardinality(ReportedPairs)
(***************************************************************************)
(* TextPlacementEngine.resolve_text_overlaps, as optimize_text_placement   *)
(* calls it: on the bounding boxes of the positions and the overlaps       *)
(* check_text_overlaps found in them                                       *)
(*                                                                         *)
(* The elements are left-aligned in one column of the same width, so two   *)
(* of them overlap exactly when their rows do.                             *)
(***************************************************************************)
MaxResolved == 3
MaxTop == 2
MaxTextHeight == 2

ResolvedSets == {k \in SUBSET Elements : Cardinality(k) <= MaxResolved}

ColumnPositions(k) == [k -> [x : {0}, y : 0..MaxTop, alignment : {"left"}]]
ColumnDims(k) == [k -> {<<10, h>> : h \in 1..MaxTextHeight}]

NoResolveCall == [positions |-> NoPositions, dims |-> NoPositions, image_height |-> 0]
NoResolved == [pos |-> NoPositions, boxes |-> NoPositions]

ResolveInit ==
    /\ rs_pc = "call"
    /\ \E k \in ResolvedSets :
         \E p \in ColumnPositions(k), d \in ColumnDims(k) :
            rs_call = [positions |-> p, dims |-> d, image_height |-> 100 * MaxImageScale]
    /\ rs_result = NoResolved

ResolveIdle ==
    /\ rs_pc = "idle"
    /\ rs_call = NoResolveCall
    /\ rs_result = NoResolved

\* the overlaps optimize_text_placement passes to resolve_text_overlaps
OverlapsOfCall(call) == check_text_overlaps(get_text_bounding_boxes(call.positions, call.dims))

\* optimize_text_placement from the bounding boxes on: "if overlaps:
\* positions = self.resolve_text_overlaps(...)"
ResolveTextOverlaps ==
    /\ rs_pc = "call"
    /\ rs_result' = resolve_text_overlaps(
                        [pos |-> rs_call.positions,
                         boxes |-> get_text_bounding_boxes(rs_call.positions, rs_call.dims)],
                        OverlapsOfCall(rs_call), rs_call.image_height, 1)
    /\ rs_pc' = "done"
    /\ UNCHANGED <<rs_call, not_rs>>

ResolveNext == ResolveTextOverlaps

\* the priority of the elements, highest first
PriorityOrder == <<"brand", "headline", "subheadline", "body", "cta">>
PriorityRank(e) == CHOOSE i \in 1..Len(PriorityOrder) : PriorityOrder[i] = e
Outranks(e1, e2) == PriorityRank(e1) < PriorityRank(e2)

\* e was in an overlapping pair with an element of higher priority
OverlappedByHigher(e) ==
    \E i \in 1..Len(OverlapsOfCall(rs_call)) :
        LET pair == OverlapsOfCall(rs_call)[i]
        IN  \/ pair[1] = e /\ Outranks(pair[2], e)
            \/ pair[2] = e /\ Outranks(pair[1], e)

Moved(e) == rs_result.pos[e] # rs_call.positions[e]

\* e was the higher-priority element of an overlapping pair
OverlappedLower(e) ==
    \E i \in 1..Len(OverlapsOfCall(rs_call)) :
        LET pair == OverlapsOfCall(rs_call)[i]
        IN  \/ pair[1] = e /\ Outranks(e, pair[2])
            \/ pair[2] = e /\ Outranks(e, pair[1])

\* C16 as stated: resolve_text_overlaps never moves the higher-priority
\* element of an overlapping pair, with priority brand > headline >
\* subheadline > body > cta: only the lower-priority element's position
\* changes, so the brand is never moved.
C16_HigherPriorityNeverMoved ==
    rs_pc = "done" =>
        /\ DOMAIN rs_result.pos = DOMAIN rs_call.positions
        /\ \A e \in DOMAIN rs_call.positions :
              /\ OverlappedLower(e) => ~Moved(e)
              /\ Moved(e) => OverlappedByHigher(e)
        /\ "brand" \in DOMAIN rs_call.positions => ~Moved("brand")

\* C16 as amended: resolve_text_overlaps moves an element only as the
\* lower-priority element of an overlapping pair, with priority brand >
\* headline > subheadline > body > cta: an element whose position changed
\* was the lower-priority element of some overlapping pair (it can be the
\* higher-priority element of another), it moved vertically only, and the
\* brand is never moved.
C16_OnlyLowerPriorityMoves ==
    rs_pc = "done" =>
        /\ DOMAIN rs_result.pos = DOMAIN rs_call.positions
        /\ \A e \in DOMAIN rs_call.positions :
              /\ Moved(e) => OverlappedByHigher(e)
              /\ rs_result.pos[e].x = rs_call.positions[e].x
              /\ rs_result.pos[e].alignment = rs_call.positions[e].alignment
        /\ "brand" \in DOMAIN rs_call.positions => ~Moved("brand")

\* the brand overlapped another element: that element moved, the brand did not
C16_Witness ==
    /\ rs_pc = "done"
    /\ \E i \in 1..Len(OverlapsOfCall(rs_call)) :
          LET pair == OverlapsOfCall(rs_call)[i]
          IN  pair[2] = "brand" /\ Moved(pair[1]) /\ ~Moved("brand")
(***************************************************************************)
(* One TextPlacementEngine over several calculate_text_positions calls     *)
(*                                                                         *)
(* _calculate_dynamic_placement works on template.copy(), a copy of the    *)
(* top level only: the element dictionaries it assigns into are the ones   *)
(* of the stored template, the 'background' key it adds is the copy's.     *)
(***************************************************************************)
MaxEngineCalls == 2

\* the stored template after _calculate_dynamic_placement returned dynamic_template
WrittenThrough(stored, dynamic_template) ==
    [k \in DOMAIN stored |-> IF k \in Elements THEN dynamic_template[k] ELSE stored[k]]

\* the call's template, the positions it returns and the engine's templates afterwards
calculate_text_positions_on(layouts, brands, a) ==
    LET matched == FirstBrandFrom(a.brand_name, 1)
        base == SelectTemplate(layouts, brands, a.style, a.brand_name)
        dynamic == a.style = "dynamic"
        template == IF dynamic THEN _calculate_dynamic_placement(base, a.subject, a.brightness)
                    ELSE base
    IN  [positions |-> calculate_text_positions(template, a.width, a.height, a.texts, a.dims),
         layout_templates |->
            IF dynamic /\ matched = NoValue
            THEN [layouts EXCEPT ![a.style] = WrittenThrough(base, template)]
            ELSE layouts,
         brand_templates |->
            IF dynamic /\ matched # NoValue
            THEN [brands EXCEPT ![matched] = WrittenThrough(base, template)]
            ELSE brands]

EngineStyles == {"dynamic", "centered"}
EngineBrands == {{}, {"nike"}}
EngineSubjects == {NoSubject, [found |-> TRUE, x_low |-> TRUE, y_low |-> TRUE],
                   [found |-> TRUE, x_low |-> FALSE, y_low |-> FALSE]}
EngineBrightnesses == {[level |-> "normal", vert |-> "top", horiz |-> "left"],
                       [level |-> "dark", vert |-> "top", horiz |-> "left"]}
EngineDims == [e \in Elements |-> <<20, 8>>]

EngineCalls ==
    {[width |-> 100, height |-> 100, texts |-> Elements, dims |-> EngineDims, style |-> s,
      brand_name |-> b, subject |-> sj, brightness |-> br] :
        s \in EngineStyles, b \in EngineBrands, sj \in EngineSubjects, br \in EngineBrightnesses}

NoEngineCall ==
    [width |-> 0, height |-> 0, texts |-> {}, dims |-> EngineDims, style |-> "",
     brand_name |-> {}, subject |-> NoSubject, brightness |-> NoBrightness]

\* TextPlacementEngine.__init__
EngineInit ==
    /\ en_calls = 0
    /\ layout_templates = _setup_layout_templates
    /\ brand_templates = _setup_brand_templates
    /\ en_call = NoEngineCall
    /\ en_positions = NoPositions

EngineIdle ==
    /\ en_calls = -1
    /\ layout_templates = _setup_layout_templates
    /\ brand_templates = _setup_brand_templates
    /\ en_call = NoEngineCall
    /\ en_positions = NoPositions

CalculateTextPositions ==
    /\ en_calls \in 0..(MaxEngineCalls - 1)
    /\ en_calls' = en_calls + 1
    /\ \E a \in EngineCalls :
          LET r == calculate_text_positions_on(layout_templates, brand_templates, a)
          IN  /\ en_call' = a
              /\ en_positions' = r.positions
              /\ layout_templates' = r.layout_templates
              /\ brand_templates' = r.brand_templates
    /\ UNCHANGED not_en

EngineNext == CalculateTextPositions

\* what the call returns on an engine that was just constructed
PositionsOnNewEngine(a) ==
    calculate_text_positions_on(_setup_layout_templates, _setup_brand_templates, a).positions

\* C17: calculate_text_positions is history-independent: the engine's
\* layout_templates and brand_templates are never modified, and a call
\* returns the positions the same call returns on a new engine, whatever
\* calls were made before it.
C17_HistoryIndependent ==
    /\ layout_templates = _setup_layout_templates
    /\ brand_templates = _setup_brand_templates
    /\ en_calls > 0 => en_positions = PositionsOnNewEngine(en_call)
(***************************************************************************)
(* StudioImageGenerator._calculate_professional_text_positions             *)
(*                                                                         *)
(* A brightness map has the nine regions in the order                      *)
(* _analyze_image_brightness_map inserts them, then 'overall'; values are  *)
(* in tenths. The maps drawn give every region of a row the same value.    *)
(***************************************************************************)
MaxBrightnessLevels == 3
BrightnessLevels == {3 * k + 1 : k \in 1..MaxBrightnessLevels}

RegionOrder == <<"top_left", "top_center", "top_right",
                 "middle_left", "middle_center", "middle_right",
                 "bottom_left", "bottom_center", "bottom_right">>
RowOf(region) ==
    CASE region \in {"top_left", "top_center", "top_right"} -> "top"
      [] region \in {"middle_left", "middle_center", "middle_right"} -> "middle"
      [] OTHER -> "bottom"

BrightnessMapOf(top, middle, bottom, overall) ==
    [top_left |-> top, top_center |-> top, top_right |-> top,
     middle_left |-> middle, middle_center |-> middle, middle_right |-> middle,
     bottom_left |-> bottom, bottom_center |-> bottom, bottom_right |-> bottom,
     overall |-> overall]

\* min(brightness_map.items(), key=...) with 'overall' counted as 1.0: the
\* first region, in insertion order, with the smallest value
DarkestRegion(region_brightness) ==
    LET least(i) == \A j \in 1..Len(RegionOrder) :
                        region_brightness[RegionOrder[i]] <= region_brightness[RegionOrder[j]]
        first == CHOOSE i \in 1..Len(RegionOrder) :
                        least(i) /\ \A j \in 1..(i - 1) : ~least(j)
    IN  RegionOrder[first]

Anchor(x, y) == [x |-> x, y |-> y]

PlacedPositions(width, height, placement_lower) ==
    LET third_h == height \div 3
        centre == width \div 2
        column(x) == [brand_pos |-> Anchor(x, third_h \div 2),
                      headline_pos |-> Anchor(x, third_h),
                      subheadline_pos |-> Anchor(x, third_h + third_h \div 2),
                      cta_pos |-> Anchor(x, height - third_h)]
    IN  CASE placement_lower = "top_heavy" ->
                [column(centre) EXCEPT !.headline_pos = Anchor(centre, third_h \div 2),
                                       !.subheadline_pos = Anchor(centre, third_h),
                                       !.brand_pos = Anchor(centre, third_h \div 4)]
          [] placement_lower = "bottom_heavy" ->
                [column(centre) EXCEPT
                    !.headline_pos = Anchor(centre, height - third_h - third_h \div 2),
                    !.subheadline_pos = Anchor(centre, height - third_h),
                    !.cta_pos = Anchor(centre, height - third_h \div 2)]
          [] placement_lower = "left" -> column(Scale(10, width))
          [] placement_lower = "right" -> column(Scale(90, width))
          [] OTHER -> column(centre)

\* the headline row after the adjustment for very bright images (overall > 0.7)
HeadlineRow(anchors, height, region_brightness) ==
    LET third_h == height \div 3
        darkest == RowOf(DarkestRegion(region_brightness))
    IN  IF region_brightness.overall > 7 /\ darkest = "top" THEN third_h \div 2
        ELSE IF region_brightness.overall > 7 /\ darkest = "bottom"
        THEN height - third_h - third_h \div 2
        ELSE anchors.headline_pos.y

_calculate_professional_text_positions(width, height, placement, region_brightness) ==
    LET anchors == PlacedPositions(width, height, Lower(placement))
    IN  [anchors EXCEPT !.headline_pos.y = HeadlineRow(anchors, height, region_brightness)]

ProfessionalPlacements == {"centered", "top_heavy", "bottom_heavy", "left", "right", "Left"}
NoAnchors == [brand_pos |-> Anchor(0, 0), headline_pos |-> Anchor(0, 0),
              subheadline_pos |-> Anchor(0, 0), cta_pos |-> Anchor(0, 0)]
NoProfessionalCall ==
    [width |-> 0, height |-> 0, placement |-> "", brightness_map |-> BrightnessMapOf(0, 0, 0, 0)]

ProfessionalInit ==
    /\ pp_pc = "call"
    /\ \E w \in ImageSides, h \in ImageSides, p \in ProfessionalPlacements,
          t \in BrightnessLevels, m \in BrightnessLevels, b \in BrightnessLevels,
          o \in BrightnessLevels :
            pp_args = [width |-> w, height |-> h, placement |-> p,
                       brightness_map |-> BrightnessMapOf(t, m, b, o)]
    /\ pp_positions = NoAnchors

ProfessionalIdle ==
    /\ pp_pc = "idle"
    /\ pp_args = NoProfessionalCall
    /\ pp_positions = NoAnchors

CalculateProfessionalTextPositions ==
    /\ pp_pc = "call"
    /\ pp_positions' = _calculate_professional_text_positions(
                            pp_args.width, pp_args.height, pp_args.placement,
                            pp_args.brightness_map)
    /\ pp_pc' = "done"
    /\ UNCHANGED <<pp_args, not_pp>>

ProfessionalNext == CalculateProfessionalTextPositions

\* C18: for every placement style and brightness map the anchors returned
\* have strictly increasing y: brand above headline above subheadline above
\* the call to action.
C18_AnchorsStrictlyBelowEachOther ==
    pp_pc = "done" =>
        /\ pp_positions.brand_pos.y < pp_positions.headline_pos.y
        /\ pp_positions.headline_pos.y < pp_positions.subheadline_pos.y
        /\ pp_positions.subheadline_pos.y < pp_positions.cta_pos.y
(***************************************************************************)
(* PatternDatabaseIntegration.enhance_ad_prompt                            *)
(*                                                                         *)
(* The database has a "technology" entry shaped like DEFAULT_AD_PATTERNS:  *)
(* headline_patterns, visual_approaches, copy_structures and               *)
(* calls_to_action, and possibly visual_patterns, copy_patterns and        *)
(* calls_to_action_patterns lists made by add_new_pattern. A pattern here  *)
(* has, besides the fields the lookups read, the 'description' (for a call *)
(* to action the 'text') the prompt quotes; the patterns add_new_pattern   *)
(* stored have it or not, as the pattern_data they were made from.         *)
(***************************************************************************)
MaxStored == 2
StoredIds == <<"v1", "v2", "v3">>
StoredDescriptions == <<"d1", "d2", "d3">>

\* the pattern with one more key
WithText(pattern, key, text) ==
    [k \in DOMAIN pattern \cup {key} |-> IF k = key THEN text ELSE pattern[k]]

RECURSIVE StoredLists(_)
\* the lists of 1..n visual approaches, with the ids in order
StoredLists(n) ==
    IF n = 0 THEN { << >> }
    ELSE LET shorter == StoredLists(n - 1)
         IN  (shorter \ { << >> }) \cup
             { Append(l, WithText(Pattern(StoredIds[n], r, [instagram |-> 7], << >>, Absent),
                                  "description", StoredDescriptions[n])) :
                 l \in { s \in shorter : Len(s) = n - 1 }, r \in {2, 5} }

DefaultShapedData(visual_approaches, added) ==
    [ NoIndustryData EXCEPT
        !.headline_patterns = << Pattern("h1", 5, [instagram |-> 7], << >>, Absent) >>,
        !.visual_approaches = visual_approaches,
        !.copy_structures =
            << WithText(Pattern("c1", 5, [instagram |-> 7], << >>, Absent),
                        "description", "dc1") >>,
        !.calls_to_action =
            << WithText(Pattern("a1", 5, [instagram |-> 7], << >>, Absent),
                        "text", "ta1") >>,
        !.visual_patterns = added.visual,
        !.copy_patterns = added.copy,
        !.calls_to_action_patterns = added.calls_to_action ]

\* what add_new_pattern may have left in one list: nothing, a pattern made
\* from pattern_data without the key the prompt quotes, or one with it
AddedList(id, key, text) ==
    { << >>,
      << Pattern(id, 2, [instagram |-> 7], << >>, Absent) >>,
      << WithText(Pattern(id, 2, [instagram |-> 7], << >>, Absent), key, text) >> }

AddedPatterns ==
    [ visual : AddedList("visual_uuid", "description", "dv"),
      copy : AddedList("copy_uuid", "description", "dk"),
      calls_to_action : AddedList("calls_to_action_uuid", "text", "tk") ]

EnhanceIndustryInputs == { "technology", "Technology ", "space" }
EnhancePlatformInputs == { "", "Instagram" }
EnhanceDemographicInputs == { "", "young" }

\* dict.get('description', placeholder) on a returned pattern; {} has no description
DescriptionOr(pattern, placeholder) ==
    IF "description" \in DOMAIN pattern THEN pattern.description ELSE placeholder

\* cta.get('text', 'Shop Now')
TextOr(pattern, placeholder) ==
    IF "text" \in DOMAIN pattern THEN pattern.text ELSE placeholder

NoContext ==
    [ headline_pattern |-> EmptyPattern, visual_approach |-> EmptyPattern,
      copy_structure |-> EmptyPattern, cta |-> EmptyPattern ]
OriginalPrompt ==
    [ outcome |-> "original", visual |-> "", copy |-> "", call_to_action |-> "",
      context |-> NoContext ]
NoEnhanceCall == [industry |-> "", platform |-> "", demographic |-> ""]
NoEnhanceResult == [OriginalPrompt EXCEPT !.outcome = ""]

\* enhance_ad_prompt: the four lookups, then the prompt and the context; an
\* exception in a lookup returns the original prompt
EnhancedPrompt(headline_pattern, visual_approach, copy_structure, cta) ==
    IF \E r \in {headline_pattern, visual_approach, copy_structure, cta} :
          r.outcome # "returned"
    THEN OriginalPrompt
    ELSE [ outcome |-> "enhanced",
           visual |-> DescriptionOr(visual_approach.pattern,
                                    "Professional product photography"),
           copy |-> DescriptionOr(copy_structure.pattern,
                                  "Clear feature-benefit structure"),
           call_to_action |-> TextOr(cta.pattern, "Shop Now"),
           context |-> [ headline_pattern |-> headline_pattern.pattern,
                         visual_approach |-> visual_approach.pattern,
                         copy_structure |-> copy_structure.pattern,
                         cta |-> cta.pattern ] ]

enhance_ad_prompt(inds, industry, target_platform, target_demographic) ==
    EnhancedPrompt(
        get_best_performing_pattern(inds, "headline", industry,
                                    target_platform, target_demographic),
        get_best_performing_pattern(inds, "visual", industry,
                                    target_platform, target_demographic),
        get_best_performing_pattern(inds, "copy", industry,
                                    target_platform, target_demographic),
        get_best_performing_pattern(inds, "calls_to_action", industry,
                                    target_platform, target_demographic))

EnhanceInit ==
    /\ ep_pc = "call"
    /\ \E approaches \in StoredLists(MaxStored), added \in AddedPatterns :
          patterns_db = << [ name |-> "technology",
                             data |-> DefaultShapedData(approaches, added) ] >>
    /\ ep_call \in [ industry : EnhanceIndustryInputs, platform : EnhancePlatformInputs,
                     demographic : EnhanceDemographicInputs ]
    /\ ep_result = NoEnhanceResult

EnhanceIdle ==
    /\ ep_pc = "idle"
    /\ patterns_db = << >>
    /\ ep_call = NoEnhanceCall
    /\ ep_result = NoEnhanceResult

EnhanceAdPrompt ==
    /\ ep_pc = "call"
    /\ ep_result' = enhance_ad_prompt(patterns_db, ep_call.industry, ep_call.platform,
                                      ep_call.demographic)
    /\ ep_pc' = "done"
    /\ UNCHANGED <<patterns_db, ep_call, not_ep>>

EnhanceNext == EnhanceAdPrompt

\* the patterns of a stored list with the largest engagement rate
BestStored(stored) ==
    { stored[k] : k \in { i \in 1..Len(stored) :
        \A j \in 1..Len(stored) :
            stored[j].engagement_metrics.average_engagement_rate
                <= stored[i].engagement_metrics.average_engagement_rate } }

\* C19: for an industry whose entry contains visual approaches, copy
\* structures and calls to action, enhance_ad_prompt puts the best-performing
\* stored visual approach, copy structure and call to action, not the
\* built-in placeholder texts, into the enhanced prompt and into the context.
C19_StoredPatternsReachThePrompt ==
    ep_pc = "done" =>
        LET entry == get_industry_patterns(patterns_db, ep_call.industry)
        IN  /\ ep_result.outcome = "enhanced"
            /\ \E best \in BestStored(entry.visual_approaches) :
                    /\ ep_result.visual = best.description
                    /\ ep_result.context.visual_approach.id = best.id
            /\ \E best \in BestStored(entry.copy_structures) :
                    /\ ep_result.copy = best.description
                    /\ ep_result.context.copy_structure.id = best.id
            /\ \E best \in BestStored(entry.calls_to_action) :
                    /\ ep_result.call_to_action = best.text
                    /\ ep_result.context.cta.id = best.id

(***************************************************************************)
(* Specifications: one per component, the other components idle            *)
(***************************************************************************)
InitPlacement ==
    /\ PlacementInit
    /\ AdIdle
    /\ JsonIdle
    /\ BrightnessIdle
    /\ ContrastIdle
    /\ StyleManagerIdle
    /\ PatternsIdle
    /\ ScraperIdle
    /\ OverlapsIdle
    /\ ResolveIdle
    /\ EngineIdle
    /\ ProfessionalIdle
    /\ EnhanceIdle
SpecPlacement == InitPlacement /\ [][PlacementNext]_vars

InitCreateAd ==
    /\ AdInit
    /\ PlacementIdle
    /\ JsonIdle
    /\ BrightnessIdle
    /\ ContrastIdle
    /\ StyleManagerIdle
    /\ PatternsIdle
    /\ ScraperIdle
    /\ OverlapsIdle
    /\ ResolveIdle
    /\ EngineIdle
    /\ ProfessionalIdle
    /\ EnhanceIdle
SpecCreateAd == InitCreateAd /\ [][AdNext]_vars

InitJson ==
    /\ JsonInit
    /\ PlacementIdle
    /\ AdIdle
    /\ BrightnessIdle
    /\ ContrastIdle
    /\ StyleManagerIdle
    /\ PatternsIdle
    /\ ScraperIdle
    /\ OverlapsIdle
    /\ ResolveIdle
    /\ EngineIdle
    /\ ProfessionalIdle
    /\ EnhanceIdle
SpecJson == InitJson /\ [][JsonNext]_vars

InitBrightness ==
    /\ BrightnessInit
    /\ PlacementIdle
    /\ AdIdle
    /\ JsonIdle
    /\ ContrastIdle
    /\ StyleManagerIdle
    /\ PatternsIdle
    /\ ScraperIdle
    /\ OverlapsIdle
    /\ ResolveIdle
    /\ EngineIdle
    /\ ProfessionalIdle
    /\ EnhanceIdle
SpecBrightness == InitBrightness /\ [][BrightnessNext]_vars

InitContrast ==
    /\ ContrastInit
    /\ PlacementIdle
    /\ AdIdle
    /\ JsonIdle
    /\ BrightnessIdle
    /\ StyleManagerIdle
    /\ PatternsIdle
    /\ ScraperIdle
    /\ OverlapsIdle
    /\ ResolveIdle
    /\ EngineIdle
    /\ ProfessionalIdle
    /\ EnhanceIdle
SpecContrast == InitContrast /\ [][ContrastNext]_vars

InitStyleManager ==
    /\ StyleManagerInit
    /\ PlacementIdle
    /\ AdIdle
    /\ JsonIdle
    /\ BrightnessIdle
    /\ ContrastIdle
    /\ PatternsIdle
    /\ ScraperIdle
    /\ OverlapsIdle
    /\ ResolveIdle
    /\ EngineIdle
    /\ ProfessionalIdle
    /\ EnhanceIdle
SpecStyleManager == InitStyleManager /\ [][StyleManagerNext]_vars

InitPatterns ==
    /\ PatternsInit
    /\ PlacementIdle
    /\ AdIdle
    /\ JsonIdle
    /\ BrightnessIdle
    /\ ContrastIdle
    /\ StyleManagerIdle
    /\ ScraperIdle
    /\ OverlapsIdle
    /\ ResolveIdle
    /\ EngineIdle
    /\ ProfessionalIdle
    /\ EnhanceIdle
SpecPatterns == InitPatterns /\ [][PatternsNext]_vars

InitScraper ==
    /\ ScraperInit
    /\ PlacementIdle
    /\ AdIdle
    /\ JsonIdle
    /\ BrightnessIdle
    /\ ContrastIdle
    /\ StyleManagerIdle
    /\ PatternsIdle
    /\ OverlapsIdle
    /\ ResolveIdle
    /\ EngineIdle
    /\ ProfessionalIdle
    /\ EnhanceIdle
SpecScraper == InitScraper /\ [][ScraperNext]_vars

InitOverlaps ==
    /\ OverlapsInit
    /\ PlacementIdle
    /\ AdIdle
    /\ JsonIdle
    /\ BrightnessIdle
    /\ ContrastIdle
    /\ StyleManagerIdle
    /\ PatternsIdle
    /\ ScraperIdle
    /\ ResolveIdle
    /\ EngineIdle
    /\ ProfessionalIdle
    /\ EnhanceIdle
SpecOverlaps == InitOverlaps /\ [][OverlapsNext]_vars

InitResolve ==
    /\ ResolveInit
    /\ PlacementIdle
    /\ AdIdle
    /\ JsonIdle
    /\ BrightnessIdle
    /\ ContrastIdle
    /\ StyleManagerIdle
    /\ PatternsIdle
    /\ ScraperIdle
    /\ OverlapsIdle
    /\ EngineIdle
    /\ ProfessionalIdle
    /\ EnhanceIdle
SpecResolve == InitResolve /\ [][ResolveNext]_vars

InitEngine ==
    /\ EngineInit
    /\ PlacementIdle
    /\ AdIdle
    /\ JsonIdle
    /\ BrightnessIdle
    /\ ContrastIdle
    /\ StyleManagerIdle
    /\ PatternsIdle
    /\ ScraperIdle
    /\ OverlapsIdle
    /\ ResolveIdle
    /\ ProfessionalIdle
    /\ EnhanceIdle
SpecEngine == InitEngine /\ [][EngineNext]_vars

InitProfessional ==
    /\ ProfessionalInit
    /\ PlacementIdle
    /\ AdIdle
    /\ JsonIdle
    /\ BrightnessIdle
    /\ ContrastIdle
    /\ StyleManagerIdle
    /\ PatternsIdle
    /\ ScraperIdle
    /\ OverlapsIdle
    /\ ResolveIdle
    /\ EngineIdle
    /\ EnhanceIdle
SpecProfessional == InitProfessional /\ [][ProfessionalNext]_vars

InitEnhance ==
    /\ EnhanceInit
    /\ PlacementIdle
    /\ AdIdle
    /\ JsonIdle
    /\ BrightnessIdle
    /\ ContrastIdle
    /\ StyleManagerIdle
    /\ PatternsIdle
    /\ ScraperIdle
    /\ OverlapsIdle
    /\ ResolveIdle
    /\ EngineIdle
    /\ ProfessionalIdle
SpecEnhance == InitEnhance /\ [][EnhanceNext]_vars

\* the feedback calls on a database of patterns with round metric values
InitFeedback ==
    /\ FeedbackInit
    /\ PlacementIdle
    /\ AdIdle
    /\ JsonIdle
    /\ BrightnessIdle
    /\ ContrastIdle
    /\ StyleManagerIdle
    /\ ScraperIdle
    /\ OverlapsIdle
    /\ ResolveIdle
    /\ EngineIdle
    /\ ProfessionalIdle
    /\ EnhanceIdle
SpecFeedback == InitFeedback /\ [][FeedbackNext]_vars

====
